---- MODULE Spec2Model ----
(***************************************************************************)
(* A model of the Idris C runtime core (rts/idris_rts.c): the bump         *)
(* allocator of a VM's heap and the cross-VM mailbox.                      *)
(*                                                                         *)
(* Addresses are byte offsets from the base of the active semi-space.      *)
(* Heap memory is tracked word by word (one word = sizeof(size_t) bytes).  *)
(***************************************************************************)
EXTENDS Integers, Sequences, FiniteSets, TLC

(***************************************************************************)
(* Bounds of the model.                                                    *)
(***************************************************************************)
\* words in one semi-space of the heap (4096000 bytes in idris_vm)
HeapWords == 7
\* allocate calls issued by the mutator of the allocator specification
MaxAllocs == 3
\* cap of the collection counter in the allocator specification (the
\* recursion of allocate is unbounded)
MaxAllocGCs == 2
\* cap of the collection counter of the destination VM
MaxCollections == 1
\* slots between inbox and inbox_end (1024 in init_vm)
InboxSlots == 2
\* messages the first sender sends; every other sender sends one
MaxSend == 2
\* heap objects of one message, one allocate call each in doCopyTo
MsgObjs == 1
\* child threads the owner of a VM spawns with vmThread
MaxChildren == 2
\* messages each of two peer VMs sends to the other
MaxPeerSends == 1
\* VMs one process creates
MaxVMs == 2
\* calls of init_nullaries in one process
MaxTables == 2
\* words in the semi-space of the VM that works on strings
StrHeapWords == 15
\* bytes of the longest string
MaxStrLen == 3
\* messages a peer sends to the VM that works on strings
MaxStrSends == 1
\* collections of the VM that works on strings
MaxStrGCs == 2
\* chunks in the semi-space of a VM whose thread binding is followed
KeyHeapChunks == 3
\* bytes in the semi-space of the VM that appends to buffers
BufHeapBytes == 160
\* buffer objects that VM holds at a time
MaxBufs == 3
\* appends the program of that VM makes
MaxAppends == 3
\* slots of the value stack
StackSlots == 4
\* messages a thread sends to a VM it has a pointer to
MaxThreadSends == 1
\* the values a slot of the stack holds: 0 .. MaxStackVal
MaxStackVal == 2
\* collections of that VM
MaxBufGCs == 1

(***************************************************************************)
(* Program constants.                                                      *)
(***************************************************************************)
\* sizeof(size_t): the chunk header
SizeT == 8

HeapSize == HeapWords * SizeT

\* request sizes (bytes) the mutator may pass to allocate
Sizes == {0, 5, 8, 13, 16, 24, HeapSize}

\* contents of a word of heap memory that nothing has initialised
JUNK == -1

\* sizeof(VAL), the unit init_vm sizes the inbox buffer in
SizeofVAL == 8
\* sizeof(Msg): the two pointers sender and msg
SizeofMsg == 16
\* slots that lie inside malloc(1024*sizeof(VAL))
InboxAllocated == (InboxSlots * SizeofVAL) \div SizeofMsg

\* the VMs that send to the destination VM; NULL stands for no sender
Senders == {1, 2}
NULLVM == 0
\* the thread that owns the destination VM
Owner == Cardinality(Senders) + 1
\* sends issued by sender s
Sends(s) == IF s = 1 THEN MaxSend ELSE 1

\* payload bytes of each object of a message, and the chunk it takes
ObjSize == SizeT

(***************************************************************************)
(* allocate: the arithmetic.                                               *)
(***************************************************************************)
\* if ((size & 7)!=0) size = 8 + ((size >> 3) << 3);
Round8(size) == IF size % 8 # 0 THEN 8 + (size \div 8) * 8 ELSE size

\* size_t chunk_size = size + sizeof(size_t);
chunk_size(size) == Round8(size) + SizeT

\* mutant: the test of space() used in place of allocate's own
Fits_CountsHeaderTwice(next, chunk, end) == next + chunk + SizeT < end

\* if (vm->heap.next + chunk_size < vm->heap.end)
Fits(next, chunk, end) == next + chunk < end

VARIABLES
    \* ---- the heap of the destination VM
    heap_next,     \* vm->heap.next, as an offset from the heap's base
    collections,   \* vm->stats.collections
    mem,           \* the active semi-space, word by word
    allocs,        \* live chunks handed out: [ptr, size, chunk]
    reqs,          \* sizes passed to allocate so far, in call order
    apc,           \* position of the mutator inside allocate
    areq,          \* the request in progress: [size, chunk, gcs]
    \* ---- the mailbox and the locks of the destination VM
    inbox,         \* vm->inbox[0 .. InboxSlots-1]: [sender, msg]
    inbox_write,   \* vm->inbox_write, as an index into inbox
    alloc_lock,    \* vm->alloc_lock (recursive): [owner, count]
    inbox_lock,    \* vm->inbox_lock: the thread holding it, or 0
    inbox_block,   \* vm->inbox_block: the thread holding it, or 0
    waiting,       \* the owner is blocked on vm->inbox_waiting
    processes,     \* vm->processes
    children,      \* child threads of the VM that have not finished
    exited,        \* exit(-1) was called
    \* ---- idris_sendMessage, per sender
    spc,           \* position in idris_sendMessage
    sgcs,          \* the local gcs
    sdmsg,         \* the local dmsg
    sleft,         \* objects doCopyTo has still to allocate
    stainted,      \* a collection discarded objects of the current copy
    scol,          \* collections when the current copy began
    spend,         \* stores of the append not yet visible to other threads
    snum,          \* sends started so far
    \* ---- the owner thread of the destination VM
    dpc,           \* position in the operation in progress
    darg,          \* its argument (a sender, or a size)
    dlock,         \* the local lock of allocate
    di,            \* the loop variable msg of the scan, as an index
    dfound,        \* the entry idris_getMessageFrom returned, as an index
    dret,          \* *ret of idris_recvMessageFrom
    dscope,        \* heap state when idris_requireAlloc returned
    \* ---- history
    sentLog,       \* messages appended to the mailbox, in append order
    recvLog,       \* (sender, msg) idris_recvMessageFrom returned, in order
    chk,           \* the last idris_checkMessagesFrom call and its result
    faults,        \* memory accesses outside the object they address
    \* ---- two peer VMs, each with its own thread, sending to one another
    plock,         \* alloc_lock of each VM: [owner, count]
    pilock,        \* inbox_lock of each VM: the thread holding it, or 0
    pblock,        \* inbox_block of each VM: the thread holding it, or 0
    pbox,          \* pending entries in the mailbox of each VM
    ppc,           \* position of each thread
    pdest,         \* the dest of the send in progress, or 0
    pcopied,       \* copies the send in progress has made
    pscope,        \* the thread is inside its own requireAlloc scope
    psent,         \* sends each thread has started
    \* ---- the VMs of one process, the values they hold, the nullary table
    nvms,          \* VMs created so far: 1 .. nvms
    nullaries,     \* nullary_cons: 0 before init_nullaries, then the number
                   \* of the allocation it points to
    held,          \* the value each VM holds (a root of its heap)
    lastcopy,      \* the last copyTo: [src, dst, x, ret]
    aborted,       \* assert(0) was reached
    \* ---- a VM whose program works on one string
    str_next,      \* vm->heap.next of that VM
    str_gcs,       \* its collections
    sval,          \* the string value its program holds (a root)
    expect,        \* the bytes that value stands for in the program
    steps,         \* idris_strTail calls since the root STRING was made
    tpc,           \* where the thread is in idris_strTail
    tstale,        \* the parameter str addresses the old semi-space
    tsends,        \* sends of the peer into this VM
    \* ---- one buffer and the primitives applied to it
    ptr_bytes,     \* sizeof(VAL) of the build: 4 or 8
    buf,           \* the Buffer: [cap, fill, store]
    bpc,           \* "none", "empty", "appended", "peeked"
    bapp,          \* the append that ran: [n, order, v]
    bpeek,         \* the peek that ran: [order, val]
    \* ---- the resources of each VM from init_vm to terminate
    life,          \* per VM: [pc, at, made, freed]
    \* ---- buffers of one heap and the views the program has of them
    bobjs,         \* per object id: [cap, fill, store], or NoObj
    views,         \* the (buffer, length) pairs the program holds
    bheap,         \* [used, gcs]: bytes of the heap in use, collections
    lastapp,       \* the last append: its arguments and what it did
    \* ---- the value stack of a VM
    valstack,      \* the slots, from valstack on
    valstack_base, \* index of the slot valstack_base points to
    valstack_top,  \* index of the slot valstack_top points to
    slid,          \* the SLIDE that ran: [args, stack, base, top]
    \* ---- a main VM, the children it spawns, and their threads
    tvms,          \* per VM: [state, processes]; state is "none", "live"
                   \* or "freed"
    threads,       \* per thread: [pc, load, arg, sent]
    uaf,           \* the accesses made to a VM after terminate freed it
    \* ---- the current-VM binding of each thread (vm_key)
    vm_key,        \* per thread: the VM pthread_getspecific(vm_key) returns
    kvm,           \* per VM: [next, collections, lock, inbox]
    kth            \* per thread: [pc, current, dest, left, gcs, sent,
                   \*              before, touched, retried]

heapVars == <<heap_next, collections>>
allocVars == <<mem, allocs, reqs, apc, areq>>
boxVars == <<inbox, inbox_write>>
lockVars == <<alloc_lock, inbox_lock, inbox_block, waiting>>
sndVars == <<spc, sgcs, sdmsg, sleft, stainted, scol, spend, snum>>
ownVars == <<dpc, darg, dlock, di, dfound, dret, dscope>>
logVars == <<sentLog, recvLog, chk, faults>>
msgVars == <<boxVars, lockVars, processes, children, exited, sndVars, ownVars,
            logVars>>
peerVars == <<plock, pilock, pblock, pbox, ppc, pdest, pcopied, pscope, psent>>
valVars == <<nvms, nullaries, held, lastcopy, aborted>>
strVars == <<str_next, str_gcs, sval, expect, steps, tpc, tstale, tsends>>
bufVars == <<ptr_bytes, buf, bpc, bapp, bpeek>>
keyVars == <<vm_key, kvm, kth>>
appVars == <<bobjs, views, bheap, lastapp>>
stackVars == <<valstack, valstack_base, valstack_top, slid>>
threadVars == <<tvms, threads, uaf>>
vars == <<heapVars, allocVars, msgVars, peerVars, valVars, strVars, bufVars,
          life, keyVars, appVars, stackVars, threadVars>>

WordsOfHeap == 0 .. (HeapWords - 1)

NoReq == [size |-> 0, chunk |-> 0, gcs |-> 0]

\* a NULL msg; a copy is [from, seq, valid]: the message seq of sender from,
\* valid while the pointer addresses the copy in the destination's heap
NullVal == [from |-> 0, seq |-> 0, valid |-> FALSE]
NullMsg == [sender |-> NULLVM, msg |-> NullVal]
\* which message a copy is a copy of
CopyOf(v) == [from |-> v.from, seq |-> v.seq]
SlotsOfInbox == 0 .. (InboxSlots - 1)
NoScope == [open |-> FALSE, locked |-> FALSE, next |-> 0, gcs |-> 0, used |-> 0]
NoChk == [done |-> FALSE, res |-> NULLVM, exp |-> NULLVM, quiet |-> FALSE,
          sends |-> 0]

\* init_vm and idle threads; p is vm->processes: 0 as init_vm leaves it
\* (line 57), 1 in the VM vmThread creates (line 992)
\* two VMs vmThread created (processes = 1 each), threads idle
Peers == {1, 2}
InitPeers ==
    /\ plock = [v \in Peers |-> [owner |-> 0, count |-> 0]]
    /\ pilock = [v \in Peers |-> 0]
    /\ pblock = [v \in Peers |-> 0]
    /\ pbox = [v \in Peers |-> 0]
    /\ ppc = [v \in Peers |-> "idle"]
    /\ pdest = [v \in Peers |-> 0]
    /\ pcopied = [v \in Peers |-> 0]
    /\ pscope = [v \in Peers |-> FALSE]
    /\ psent = [v \in Peers |-> 0]

\* ---- values: [ty, at, tag, args], at the place the pointer addresses
Imm == [kind |-> "imm", id |-> 0]
Table(g) == [kind |-> "table", id |-> g]
Heap(v) == [kind |-> "heap", id |-> v]
NoVal == [ty |-> "NULL", at |-> Imm, tag |-> 0, args |-> << >>]
NoCopy == [src |-> 0, dst |-> 0, x |-> NoVal, ret |-> NoVal]

\* one main VM made by idris_vm, which has run init_nullaries once
InitVals ==
    /\ nvms = 1
    /\ nullaries = 1
    /\ held = [v \in 1..MaxVMs |-> NoVal]
    /\ lastcopy = NoCopy
    /\ aborted = FALSE

\* init_vm: the fields of a new VM
InitRts(p) ==
    /\ InitPeers
    /\ inbox = [i \in SlotsOfInbox |-> NullMsg]
    /\ inbox_write = 0
    /\ alloc_lock = [owner |-> 0, count |-> 0]
    /\ inbox_lock = 0
    /\ inbox_block = 0
    /\ waiting = FALSE
    /\ processes = p
    /\ children = 0
    /\ exited = FALSE
    /\ spc = [s \in Senders |-> "idle"]
    /\ sgcs = [s \in Senders |-> 0]
    /\ sdmsg = [s \in Senders |-> NullVal]
    /\ sleft = [s \in Senders |-> 0]
    /\ stainted = [s \in Senders |-> FALSE]
    /\ scol = [s \in Senders |-> 0]
    /\ spend = [s \in Senders |-> {}]
    /\ snum = [s \in Senders |-> 0]
    /\ dpc = "idle"
    /\ darg = 0
    /\ dlock = FALSE
    /\ di = 0
    /\ dfound = 0
    /\ dret = NullMsg
    /\ dscope = NoScope
    /\ sentLog = << >>
    /\ recvLog = << >>
    /\ chk = NoChk
    /\ faults = {}

\* ---- strings: [ty, bytes, off, root]; a STRING has bytes, a STROFFSET has
\* an offset and the object its str field addresses (a sequence of one)
Chars == {1, 2}
MKSTR(bytes) == [ty |-> "STRING", bytes |-> bytes, off |-> 0, root |-> << >>]
StrOff(r, k) == [ty |-> "STROFFSET", bytes |-> << >>, off |-> k, root |-> <<r>>]

\* sizeof(Closure) and sizeof(StrOffset), in bytes
SizeofClosure == 2 * SizeT
SizeofStrOffset == 2 * SizeT
StrHeapSize == StrHeapWords * SizeT

\* the chunk of a STRING of n bytes and of a STROFFSET
StringChunk(n) == chunk_size(SizeofClosure + n + 1)
StrOffsetChunk == chunk_size(SizeofClosure + SizeofStrOffset)

\* a VM whose program has made one STRING with MKSTR
InitStr ==
    /\ sval = MKSTR(<<1, 2>>)
    /\ expect = sval.bytes
    /\ str_next = StringChunk(Len(sval.bytes))
    /\ str_gcs = 0
    /\ steps = 0
    /\ tpc = "idle"
    /\ tstale = FALSE
    /\ tsends = 0

\* ---- buffers. An N-bit value is the sequence of its N/8 bytes, the byte
\* of weight 256^k at index k+1: (unsigned char)(v >> 8k) is v[k+1]
PtrSizes == {4, 8}
NoBuf == [cap |-> 0, fill |-> 0, store |-> << >>]
NoApp == [n |-> 0, order |-> "none", v |-> << >>]
NoPeek == [order |-> "none", val |-> << >>]
\* an object id with no buffer
NoObj == [cap |-> -1, fill |-> 0, store |-> << >>]
NoAppend == [buf |-> 0, len |-> 0, appLen |-> 0, before |-> NoObj,
             orig |-> NoObj, res |-> NoObj, inplace |-> FALSE,
             gc |-> FALSE, hi |-> 0, num |-> 0]

\* no buffer yet, in a build whose pointers have one of the sizes W
InitBuf(W) ==
    /\ ptr_bytes \in W
    /\ buf = NoBuf
    /\ bpc = "none"
    /\ bapp = NoApp
    /\ bpeek = NoPeek
    /\ bobjs = [id \in 1..MaxBufs |-> NoObj]
    /\ views = {}
    /\ bheap = [used |-> 0, gcs |-> 0]
    /\ lastapp = NoAppend

\* ---- the life of a VM: pc is "none", "init", "live", "term" or "gone",
\* at counts the statements done, made is what init_vm has created and
\* freed lists what terminate has released, in order
NoLife == [pc |-> "none", at |-> 0, made |-> {}, freed |-> << >>]
InitLife == life = [v \in 1..MaxVMs |-> NoLife]

NoSlide == [args |-> -1, stack |-> << >>, base |-> 0, top |-> 0]
StackIdx == 0 .. (StackSlots - 1)

\* the value stack in a frame [b, t) with the slots st
InitStack(st, b, t) ==
    /\ valstack = st
    /\ valstack_base = b
    /\ valstack_top = t
    /\ slid = NoSlide

\* VM 0 is the main VM, made by init_vm (processes = 0) and run by thread
\* 0; VM c > 0 is the VM of child c, run by thread c
MainVM == 0
Children == 1..MaxChildren

\* two VMs, each bound to its own thread by init_threaddata
InitThreads ==
    /\ tvms = [v \in {MainVM} \cup Children |->
                  IF v = MainVM THEN [state |-> "live", processes |-> 0]
                  ELSE [state |-> "none", processes |-> 0]]
    /\ threads = [t \in {MainVM} \cup Children |->
                     [pc |-> IF t = MainVM THEN "run" ELSE "none",
                      load |-> 0, arg |-> 0, sent |-> 0]]
    /\ uaf = {}
    /\ vm_key = [t \in Peers |-> t]
    /\ kvm = [v \in Peers |-> [next |-> 0, collections |-> 0, lock |-> 0,
                               inbox |-> 0]]
    /\ kth = [t \in Peers |-> [pc |-> "run", current |-> t, dest |-> t,
                               left |-> 0, gcs |-> 0, sent |-> 0,
                               before |-> t, touched |-> {},
                               retried |-> FALSE]]

\* the threads, and a stack as init_vm leaves it: base = top = valstack
InitKey ==
    /\ InitStack([i \in StackIdx |-> 0], 0, 0)
    /\ InitThreads

InitVM(p) ==
    InitRts(p) /\ InitVals /\ InitStr /\ InitBuf({SizeofVAL}) /\ InitLife
    /\ InitKey

\* alloc_heap: a fresh semi-space; malloc leaves its bytes indeterminate
InitHeap ==
    /\ heap_next = 0
    /\ collections = 0
    /\ mem = [w \in WordsOfHeap |-> JUNK]
    /\ allocs = << >>
    /\ reqs = << >>
    /\ apc = "idle"
    /\ areq = NoReq

\* the VM of a thread vmThread started
InitMsg == InitVM(1)

InitAlloc == InitHeap /\ InitMsg

\* the mutator calls allocate(size, outerlock); processes = 0, so no lock
AllocCall(size) ==
    /\ apc = "idle"
    /\ Len(reqs) < MaxAllocs
    /\ apc' = "alloc"
    /\ areq' = [size |-> Round8(size), chunk |-> chunk_size(size), gcs |-> 0]
    /\ reqs' = Append(reqs, size)
    /\ UNCHANGED <<heapVars, mem, allocs, msgVars, peerVars, valVars, strVars,
                   bufVars, life, appVars, stackVars, threadVars, keyVars>>

\* words written by the fitting branch: the header, then the zeroed payload
MemAfterAlloc(m, next, size, chunk) ==
    [w \in WordsOfHeap |->
        IF w = next \div SizeT THEN chunk
        ELSE IF w > next \div SizeT /\ w <= (next + size) \div SizeT THEN 0
        ELSE m[w]]

\* the then-branch of allocate: header, bump, memset, return ptr
AllocFit ==
    /\ apc = "alloc"
    /\ Fits(heap_next, areq.chunk, HeapSize)
    /\ mem' = MemAfterAlloc(mem, heap_next, areq.size, areq.chunk)
    /\ allocs' = Append(allocs, [ptr |-> heap_next + SizeT,
                                 size |-> areq.size,
                                 chunk |-> areq.chunk])
    /\ heap_next' = heap_next + areq.chunk
    /\ apc' = "idle"
    /\ areq' = NoReq
    /\ UNCHANGED <<collections, reqs, msgVars, peerVars, valVars, strVars,
                   bufVars, life, appVars, stackVars, threadVars, keyVars>>

RECURSIVE SumSeq(_)
SumSeq(s) == IF s = << >> THEN 0 ELSE Head(s) + SumSeq(Tail(s))

RECURSIVE SelectIdx(_, _, _)
\* the subsequence of s at the indices in keep
SelectIdx(s, keep, i) ==
    IF i > Len(s) THEN << >>
    ELSE IF i \in keep THEN <<s[i]>> \o SelectIdx(s, keep, i + 1)
    ELSE SelectIdx(s, keep, i + 1)

RECURSIVE Relocate(_, _)
\* survivors copied to the new semi-space in order, from offset at
Relocate(s, at) ==
    IF s = << >> THEN << >>
    ELSE <<[ptr |-> at + SizeT, size |-> Head(s).size, chunk |-> Head(s).chunk]>>
         \o Relocate(Tail(s), at + Head(s).chunk)

\* the new semi-space after a collection: the survivors, then stale bytes
MemAfterGC(live) ==
    [w \in WordsOfHeap |->
        IF \E i \in 1..Len(live) : w = (live[i].ptr - SizeT) \div SizeT
            THEN live[CHOOSE i \in 1..Len(live) :
                          w = (live[i].ptr - SizeT) \div SizeT].chunk
        ELSE IF \E i \in 1..Len(live) :
                    /\ w >= live[i].ptr \div SizeT
                    /\ w < (live[i].ptr + live[i].size) \div SizeT
            THEN 0
        ELSE JUNK]

\* the else-branch of allocate: idris_gc(vm), then allocate(size, 0) again.
\* Which chunks survive is decided by the mutator's roots.
AllocGC ==
    /\ apc = "alloc"
    /\ ~Fits(heap_next, areq.chunk, HeapSize)
    /\ collections < MaxAllocGCs
    /\ \E keep \in SUBSET (1..Len(allocs)) :
         LET live == Relocate(SelectIdx(allocs, keep, 1), 0) IN
         /\ allocs' = live
         /\ heap_next' = SumSeq([i \in 1..Len(live) |-> live[i].chunk])
         /\ mem' = MemAfterGC(live)
    /\ collections' = collections + 1
    /\ areq' = [areq EXCEPT !.gcs = @ + 1]
    /\ UNCHANGED <<reqs, apc, msgVars, peerVars, valVars, strVars, bufVars,
                   life, appVars, stackVars, threadVars, keyVars>>

NextAlloc ==
    \/ \E size \in Sizes : AllocCall(size)
    \/ AllocFit
    \/ AllocGC

SpecAlloc == InitAlloc /\ [][NextAlloc]_vars

(***************************************************************************)
(* The destination VM with its owner thread and the sending threads.       *)
(***************************************************************************)
ObjChunk == chunk_size(ObjSize)
MsgBytes == MsgObjs * ObjChunk

\* pthread_mutex_lock / unlock of the recursive vm->alloc_lock
CanLock(t) == alloc_lock.owner \in {0, t}
Locked(t) == [owner |-> t, count |-> alloc_lock.count + 1]
\* (the unlock of a recursive mutex by a thread that does not hold it fails
\* with EPERM and changes nothing)
Unlocked(t) ==
    IF alloc_lock.owner # t THEN alloc_lock
    ELSE IF alloc_lock.count <= 1 THEN [owner |-> 0, count |-> 0]
    ELSE [alloc_lock EXCEPT !.count = @ - 1]

\* bytes the collector copies: the copies the pending entries point to
LiveBytes(n) ==
    Cardinality({<<inbox[i].msg.from, inbox[i].msg.seq>> :
                    i \in {j \in SlotsOfInbox : j < n /\ inbox[j].msg.valid}})
        * MsgBytes

\* idris_gc(vm): the roots in the mailbox are the pending entries. Every
\* other pointer into the old semi-space is left dangling: the local dmsg
\* of a sender, the objects a copy under construction has allocated, a slot
\* above inbox_write, and the *ret of a receive that has read its entry and
\* not yet returned. The owner's own chunks are taken to be garbage by then.
Collect ==
    /\ collections < MaxCollections
    /\ collections' = collections + 1
    /\ heap_next' = LiveBytes(inbox_write)
    /\ sdmsg' = [s \in Senders |-> [sdmsg[s] EXCEPT !.valid = FALSE]]
    /\ stainted' = [s \in Senders |->
          stainted[s] \/ (spc[s] \in {"copy1", "copy2"} /\ sleft[s] < MsgObjs)]
    /\ inbox' = [i \in SlotsOfInbox |->
                    IF i < inbox_write THEN inbox[i]
                    ELSE [inbox[i] EXCEPT !.msg.valid = FALSE]]
    /\ dret' = IF dpc \in {"r_ilock", "r_remove", "r_iunlock"}
               THEN [dret EXCEPT !.msg.valid = FALSE] ELSE dret

\* ---- idris_sendMessage(sender, dest, msg)

\* int gcs = dest->stats.collections;
SendCall(s) ==
    /\ ~exited
    /\ spc[s] = "idle"
    /\ snum[s] < Sends(s)
    /\ snum' = [snum EXCEPT ![s] = @ + 1]
    /\ sgcs' = [sgcs EXCEPT ![s] = collections]
    /\ sdmsg' = [sdmsg EXCEPT ![s] = NullVal]
    /\ spc' = [spc EXCEPT ![s] = "lock1"]
    /\ UNCHANGED <<heapVars, allocVars, boxVars, lockVars, processes,
                   children, exited, sleft, stainted, scol, spend, ownVars,
                   logVars, peerVars, valVars, strVars, bufVars, life,
                   appVars, stackVars, threadVars, keyVars>>

\* pthread_mutex_lock(&dest->alloc_lock), before either copy
SendLockAlloc(s) ==
    /\ ~exited
    /\ spc[s] \in {"lock1", "lock2"}
    /\ CanLock(s)
    /\ alloc_lock' = Locked(s)
    /\ sleft' = [sleft EXCEPT ![s] = MsgObjs]
    /\ stainted' = [stainted EXCEPT ![s] = FALSE]
    /\ scol' = [scol EXCEPT ![s] = collections]
    /\ spc' = [spc EXCEPT ![s] = IF spc[s] = "lock1" THEN "copy1" ELSE "copy2"]
    /\ UNCHANGED <<heapVars, allocVars, boxVars, inbox_lock, inbox_block,
                   waiting, processes, children, exited, sgcs, sdmsg, spend,
                   snum, ownVars, logVars, peerVars, valVars, strVars,
                   bufVars, life, appVars, stackVars, threadVars, keyVars>>

\* one allocate(size, 1) of doCopyTo, with the current VM rebound to dest:
\* the chunk when it fits, else idris_gc(dest) and allocate(size, 0) again.
\* The last allocation ends copyTo and sets dmsg.
SendCopy(s) ==
    /\ ~exited
    /\ spc[s] \in {"copy1", "copy2"}
    /\ IF Fits(heap_next, ObjChunk, HeapSize)
       THEN /\ heap_next' = heap_next + ObjChunk
            /\ sleft' = [sleft EXCEPT ![s] = @ - 1]
            /\ IF sleft[s] = 1
               THEN /\ sdmsg' = [sdmsg EXCEPT ![s] =
                          [from |-> s, seq |-> snum[s], valid |-> ~stainted[s]]]
                    /\ spc' = [spc EXCEPT ![s] =
                          IF spc[s] = "copy1" THEN "unlock1" ELSE "unlock2"]
               ELSE UNCHANGED <<sdmsg, spc>>
            /\ UNCHANGED <<collections, stainted, inbox, dret>>
       ELSE /\ Collect
            /\ UNCHANGED <<sleft, spc>>
    /\ UNCHANGED <<allocVars, inbox_write, lockVars, processes, children,
                   exited, sgcs, scol, spend, snum, dpc, darg, dlock, di,
                   dfound, dscope, logVars, peerVars, valVars, strVars,
                   bufVars, life, appVars, stackVars, threadVars, keyVars>>

\* pthread_mutex_unlock(&dest->alloc_lock), after either copy
SendUnlockAlloc(s) ==
    /\ ~exited
    /\ spc[s] \in {"unlock1", "unlock2"}
    /\ alloc_lock' = Unlocked(s)
    /\ spc' = [spc EXCEPT ![s] = IF spc[s] = "unlock1" THEN "recheck" ELSE "ilock"]
    /\ UNCHANGED <<heapVars, allocVars, boxVars, inbox_lock, inbox_block,
                   waiting, processes, children, exited, sgcs, sdmsg, sleft,
                   stainted, scol, spend, snum, ownVars, logVars, peerVars,
                   valVars, strVars, bufVars, life, appVars, stackVars,
                   threadVars, keyVars>>

\* if (dest->stats.collections > gcs): the copy is made again
SendRecheck(s) ==
    /\ ~exited
    /\ spc[s] = "recheck"
    /\ spc' = [spc EXCEPT ![s] = IF collections > sgcs[s] THEN "lock2" ELSE "ilock"]
    /\ UNCHANGED <<heapVars, allocVars, boxVars, lockVars, processes,
                   children, exited, sgcs, sdmsg, sleft, stainted, scol,
                   spend, snum, ownVars, logVars, peerVars, valVars, strVars,
                   bufVars, life, appVars, stackVars, threadVars, keyVars>>

\* if (dest->inbox_write >= dest->inbox_end)
InboxFull(write) == write >= InboxSlots

\* the three stores of the append: dest->inbox_write->msg = dmsg;
\* dest->inbox_write->sender = sender; dest->inbox_write++;
Stores == {"msg", "sender", "write"}

\* pthread_mutex_lock(&(dest->inbox_lock)) and, under the lock, the test;
\* on a full inbox fprintf(stderr, "Inbox full"); exit(-1);
SendLockInbox(s) ==
    /\ ~exited
    /\ spc[s] = "ilock"
    /\ inbox_lock = 0
    /\ inbox_lock' = s
    /\ IF InboxFull(inbox_write)
       THEN /\ exited' = TRUE
            /\ spc' = [spc EXCEPT ![s] = "exit"]
            /\ spend' = spend
       ELSE /\ exited' = exited
            /\ spc' = [spc EXCEPT ![s] = "store"]
            /\ spend' = [spend EXCEPT ![s] = Stores]
    /\ UNCHANGED <<heapVars, allocVars, boxVars, alloc_lock, inbox_block,
                   waiting, processes, children, sgcs, sdmsg, sleft, stainted,
                   scol, snum, ownVars, logVars, peerVars, valVars, strVars,
                   bufVars, life, appVars, stackVars, threadVars, keyVars>>

\* a store into *inbox_write lands outside malloc(1024*sizeof(VAL))
PastAllocation(i) == i >= InboxAllocated

\* the slot dest->inbox_write addressed when the append began
AppendSlot(s) == IF "write" \in spend[s] THEN inbox_write ELSE inbox_write - 1

\* The receiver reads the mailbox without inbox_lock, so the append is a data
\* race with idris_getMessageFrom and with the reads of *msg that follow it:
\* nothing orders the three plain stores for the reading thread between the
\* two lock operations around them, and they become visible one by one in
\* any order. The append is complete when the last one is.
StoreDone(s, st) ==
    /\ spend' = [spend EXCEPT ![s] = @ \ {st}]
    /\ IF spend[s] = {st}
       THEN /\ spc' = [spc EXCEPT ![s] = "block"]
            /\ sentLog' = Append(sentLog,
                  [sender |-> s, msg |-> [from |-> s, seq |-> snum[s]]])
       ELSE UNCHANGED <<spc, sentLog>>

\* dest->inbox_write->msg = dmsg;
SendWriteMsg(s) ==
    /\ ~exited
    /\ spc[s] = "store"
    /\ "msg" \in spend[s]
    /\ inbox' = [inbox EXCEPT ![AppendSlot(s)].msg = sdmsg[s]]
    /\ faults' = IF PastAllocation(AppendSlot(s))
                 THEN faults \cup {"send_past_allocation"} ELSE faults
    /\ StoreDone(s, "msg")
    /\ UNCHANGED <<heapVars, allocVars, inbox_write, lockVars, processes,
                   children, exited, sgcs, sdmsg, sleft, stainted, scol, snum,
                   ownVars, recvLog, chk, peerVars, valVars, strVars, bufVars,
                   life, appVars, stackVars, threadVars, keyVars>>

\* dest->inbox_write->sender = sender;
SendWriteSender(s) ==
    /\ ~exited
    /\ spc[s] = "store"
    /\ "sender" \in spend[s]
    /\ inbox' = [inbox EXCEPT ![AppendSlot(s)].sender = s]
    /\ faults' = IF PastAllocation(AppendSlot(s))
                 THEN faults \cup {"send_past_allocation"} ELSE faults
    /\ StoreDone(s, "sender")
    /\ UNCHANGED <<heapVars, allocVars, inbox_write, lockVars, processes,
                   children, exited, sgcs, sdmsg, sleft, stainted, scol, snum,
                   ownVars, recvLog, chk, peerVars, valVars, strVars, bufVars,
                   life, appVars, stackVars, threadVars, keyVars>>

\* dest->inbox_write++;
SendAdvance(s) ==
    /\ ~exited
    /\ spc[s] = "store"
    /\ "write" \in spend[s]
    /\ inbox_write' = inbox_write + 1
    /\ StoreDone(s, "write")
    /\ UNCHANGED <<heapVars, allocVars, inbox, lockVars, processes, children,
                   exited, sgcs, sdmsg, sleft, stainted, scol, snum, ownVars,
                   recvLog, chk, faults, peerVars, valVars, strVars, bufVars,
                   life, appVars, stackVars, threadVars, keyVars>>

\* pthread_mutex_lock(&dest->inbox_block);
\* pthread_cond_signal(&dest->inbox_waiting);
\* pthread_mutex_unlock(&dest->inbox_block);
\* The sender does nothing else while it holds inbox_block, so the three
\* calls are one step, taken when inbox_block is free.
SendSignal(s) ==
    /\ ~exited
    /\ spc[s] = "block"
    /\ inbox_block = 0
    /\ waiting' = FALSE
    /\ spc' = [spc EXCEPT ![s] = "iunlock"]
    /\ UNCHANGED <<heapVars, allocVars, boxVars, alloc_lock, inbox_lock,
                   inbox_block, processes, children, exited, sgcs, sdmsg,
                   sleft, stainted, scol, spend, snum, ownVars, logVars,
                   peerVars, valVars, strVars, bufVars, life, appVars,
                   stackVars, threadVars, keyVars>>

\* pthread_mutex_unlock(&(dest->inbox_lock)); and the return
SendUnlockInbox(s) ==
    /\ ~exited
    /\ spc[s] = "iunlock"
    /\ inbox_lock' = 0
    /\ spc' = [spc EXCEPT ![s] = "idle"]
    /\ sgcs' = [sgcs EXCEPT ![s] = 0]
    /\ sdmsg' = [sdmsg EXCEPT ![s] = NullVal]
    /\ stainted' = [stainted EXCEPT ![s] = FALSE]
    /\ UNCHANGED <<heapVars, allocVars, boxVars, alloc_lock, inbox_block,
                   waiting, processes, children, exited, sleft, scol, spend,
                   snum, ownVars, logVars, peerVars, valVars, strVars,
                   bufVars, life, appVars, stackVars, threadVars, keyVars>>

idris_sendMessage(s) ==
    \/ SendCall(s)
    \/ SendLockAlloc(s)
    \/ SendCopy(s)
    \/ SendUnlockAlloc(s)
    \/ SendRecheck(s)
    \/ SendLockInbox(s)
    \/ SendWriteMsg(s)
    \/ SendWriteSender(s)
    \/ SendAdvance(s)
    \/ SendSignal(s)
    \/ SendUnlockInbox(s)

\* ---- the owner thread: receiving

\* if (sender == NULL || msg->sender == sender)
Matches(sender, entrySender) == sender = NULLVM \/ entrySender = sender

\* idris_recvMessageFrom(vm, sender): entry
RecvCall(sender) ==
    /\ ~exited
    /\ dpc = "idle"
    /\ dpc' = "r_block"
    /\ darg' = sender
    /\ chk' = NoChk
    /\ UNCHANGED <<heapVars, allocVars, boxVars, lockVars, processes,
                   children, exited, sndVars, dlock, di, dfound, dret, dscope,
                   sentLog, recvLog, faults, peerVars, valVars, strVars,
                   bufVars, life, appVars, stackVars, threadVars, keyVars>>

\* pthread_mutex_lock(&vm->inbox_block), at entry and when the timed wait
\* ends (by the signal or by the timeout)
RecvLockBlock ==
    /\ ~exited
    /\ dpc \in {"r_block", "r_wait"}
    /\ inbox_block = 0
    /\ inbox_block' = Owner
    /\ waiting' = FALSE
    /\ di' = 0
    /\ dpc' = "r_scan"
    /\ UNCHANGED <<heapVars, allocVars, boxVars, alloc_lock, inbox_lock,
                   processes, children, exited, sndVars, darg, dlock, dfound,
                   dret, dscope, logVars, peerVars, valVars, strVars, bufVars,
                   life, appVars, stackVars, threadVars, keyVars>>

\* for (msg = vm->inbox; msg < vm->inbox_write; ++msg)
ScanEnds(i, write) == ~(i < write)

\* one iteration of idris_getMessageFrom, read without inbox_lock; on NULL
\* pthread_cond_timedwait releases inbox_block and waits
RecvScan ==
    /\ ~exited
    /\ dpc = "r_scan"
    /\ IF ScanEnds(di, inbox_write)
       THEN /\ inbox_block' = 0
            /\ waiting' = TRUE
            /\ dpc' = "r_wait"
            /\ UNCHANGED <<di, dfound>>
       ELSE IF Matches(darg, inbox[di].sender)
       THEN /\ dfound' = di
            /\ dpc' = "r_unblock"
            /\ UNCHANGED <<di, inbox_block, waiting>>
       ELSE /\ di' = di + 1
            /\ UNCHANGED <<dpc, dfound, inbox_block, waiting>>
    /\ UNCHANGED <<heapVars, allocVars, boxVars, alloc_lock, inbox_lock,
                   processes, children, exited, sndVars, darg, dlock, dret,
                   dscope, logVars, peerVars, valVars, strVars, bufVars, life,
                   appVars, stackVars, threadVars, keyVars>>

\* pthread_mutex_unlock(&vm->inbox_block);
\* ret->msg = msg->msg; ret->sender = msg->sender;
RecvRead ==
    /\ ~exited
    /\ dpc = "r_unblock"
    /\ inbox_block' = 0
    /\ dret' = inbox[dfound]
    /\ dpc' = "r_ilock"
    /\ UNCHANGED <<heapVars, allocVars, boxVars, alloc_lock, inbox_lock,
                   waiting, processes, children, exited, sndVars, darg, dlock,
                   di, dfound, dscope, logVars, peerVars, valVars, strVars,
                   bufVars, life, appVars, stackVars, threadVars, keyVars>>

\* pthread_mutex_lock(&(vm->inbox_lock));
RecvLockInbox ==
    /\ ~exited
    /\ dpc = "r_ilock"
    /\ inbox_lock = 0
    /\ inbox_lock' = Owner
    /\ dpc' = "r_remove"
    /\ UNCHANGED <<heapVars, allocVars, boxVars, alloc_lock, inbox_block,
                   waiting, processes, children, exited, sndVars, darg, dlock,
                   di, dfound, dret, dscope, logVars, peerVars, valVars,
                   strVars, bufVars, life, appVars, stackVars, threadVars,
                   keyVars>>

\* for(;msg < vm->inbox_write; ++msg)
\*     if (msg+1 != vm->inbox_end) *msg = *(msg + 1);
\* vm->inbox_write->msg = NULL; vm->inbox_write->sender = NULL;
SlideDown(box, from, write) ==
    [i \in SlotsOfInbox |->
        IF i = write THEN NullMsg
        ELSE IF i >= from /\ i < write /\ i + 1 # InboxSlots THEN box[i + 1]
        ELSE box[i]]

\* the removal, under inbox_lock, ending in vm->inbox_write--;
RecvRemove ==
    /\ ~exited
    /\ dpc = "r_remove"
    /\ inbox' = SlideDown(inbox, dfound, inbox_write)
    /\ inbox_write' = inbox_write - 1
    /\ faults' = faults
          \cup (IF inbox_write = InboxSlots THEN {"remove_writes_inbox_end"} ELSE {})
          \cup (IF PastAllocation(inbox_write) THEN {"remove_past_allocation"} ELSE {})
    /\ dpc' = "r_iunlock"
    /\ UNCHANGED <<heapVars, allocVars, lockVars, processes, children, exited,
                   sndVars, darg, dlock, di, dfound, dret, dscope, sentLog,
                   recvLog, chk, peerVars, valVars, strVars, bufVars, life,
                   appVars, stackVars, threadVars, keyVars>>

\* pthread_mutex_unlock(&(vm->inbox_lock)); return ret;
RecvReturn ==
    /\ ~exited
    /\ dpc = "r_iunlock"
    /\ inbox_lock' = 0
    /\ recvLog' = Append(recvLog, [sender |-> dret.sender,
                                   msg |-> CopyOf(dret.msg)])
    /\ dpc' = "idle"
    /\ darg' = 0 /\ di' = 0 /\ dfound' = 0 /\ dret' = NullMsg
    /\ UNCHANGED <<heapVars, allocVars, boxVars, alloc_lock, inbox_block,
                   waiting, processes, children, exited, sndVars, dlock,
                   dscope, sentLog, chk, faults, peerVars, valVars, strVars,
                   bufVars, life, appVars, stackVars, threadVars, keyVars>>

idris_recvMessageFrom ==
    \/ \E sender \in Senders \cup {NULLVM} : RecvCall(sender)
    \/ RecvLockBlock
    \/ RecvScan
    \/ RecvRead
    \/ RecvLockInbox
    \/ RecvRemove
    \/ RecvReturn

\* ---- the owner thread: polling

\* the indices of the pending entries that match sender
PendingMatches(sender) ==
    {i \in SlotsOfInbox : i < inbox_write /\ Matches(sender, inbox[i].sender)}

Min(S) == CHOOSE x \in S : \A y \in S : x <= y

\* the sender of the first pending entry that matches, NULL when none does
FirstPending(sender) ==
    IF PendingMatches(sender) = {} THEN NULLVM
    ELSE inbox[Min(PendingMatches(sender))].sender

SendsStarted == SumSeq([s \in 1..Cardinality(Senders) |-> snum[s]])
NoSendInFlight == \A s \in Senders : spc[s] = "idle"

\* idris_checkMessagesFrom(vm, sender): entry
CheckCall(sender) ==
    /\ ~exited
    /\ dpc = "idle"
    /\ dpc' = "c_scan"
    /\ darg' = sender
    /\ di' = 0
    /\ chk' = [NoChk EXCEPT !.quiet = NoSendInFlight, !.sends = SendsStarted]
    /\ UNCHANGED <<heapVars, allocVars, boxVars, lockVars, processes,
                   children, exited, sndVars, dlock, dfound, dret, dscope,
                   sentLog, recvLog, faults, peerVars, valVars, strVars,
                   bufVars, life, appVars, stackVars, threadVars, keyVars>>

\* for (msg = vm->inbox; msg < vm->inbox_end && msg->msg != NULL; ++msg)
CheckEnds(box, i) == ~(i < InboxSlots /\ box[i].msg # NullVal)

\* the call returns res; exp is what the pending entries hold at that moment
\* and quiet tells that no send ran while the call did
Checked(res) ==
    [done |-> TRUE, res |-> res, exp |-> FirstPending(darg),
     quiet |-> chk.quiet /\ NoSendInFlight /\ chk.sends = SendsStarted,
     sends |-> 0]

\* one iteration of the scan of idris_checkMessagesFrom, or its return
CheckScan ==
    /\ ~exited
    /\ dpc = "c_scan"
    /\ IF CheckEnds(inbox, di)
       THEN /\ chk' = Checked(NULLVM)
            /\ dpc' = "idle"
            /\ di' = 0 /\ darg' = 0
       ELSE IF Matches(darg, inbox[di].sender)
       THEN /\ chk' = Checked(inbox[di].sender)
            /\ dpc' = "idle"
            /\ di' = 0 /\ darg' = 0
       ELSE /\ di' = di + 1
            /\ UNCHANGED <<chk, dpc, darg>>
    /\ UNCHANGED <<heapVars, allocVars, boxVars, lockVars, processes,
                   children, exited, sndVars, dlock, dfound, dret, dscope,
                   sentLog, recvLog, faults, peerVars, valVars, strVars,
                   bufVars, life, appVars, stackVars, threadVars, keyVars>>

idris_checkMessagesFrom ==
    \/ \E sender \in Senders \cup {NULLVM} : CheckCall(sender)
    \/ CheckScan

\* ---- the owner thread: allocating on its own heap

\* allocate(size, 0): int lock = vm->processes > 0 && !outerlock;
OwnAllocCall ==
    /\ ~exited
    /\ dpc = "idle"
    /\ dpc' = "a_lock"
    /\ darg' = ObjSize
    /\ dlock' = (processes > 0)
    /\ chk' = NoChk
    /\ UNCHANGED <<heapVars, allocVars, boxVars, lockVars, processes,
                   children, exited, sndVars, di, dfound, dret, dscope,
                   sentLog, recvLog, faults, peerVars, valVars, strVars,
                   bufVars, life, appVars, stackVars, threadVars, keyVars>>

\* if (lock) pthread_mutex_lock(&vm->alloc_lock);
OwnAllocLock ==
    /\ ~exited
    /\ dpc = "a_lock"
    /\ IF dlock
       THEN CanLock(Owner) /\ alloc_lock' = Locked(Owner)
       ELSE alloc_lock' = alloc_lock
    /\ dpc' = "a_try"
    /\ UNCHANGED <<heapVars, allocVars, boxVars, inbox_lock, inbox_block,
                   waiting, processes, children, exited, sndVars, darg, dlock,
                   di, dfound, dret, dscope, logVars, peerVars, valVars,
                   strVars, bufVars, life, appVars, stackVars, threadVars,
                   keyVars>>

\* the chunk and the unlock when it fits; else idris_gc(vm), the unlock and
\* allocate(size, 0) again
OwnAllocTry ==
    /\ ~exited
    /\ dpc = "a_try"
    /\ IF Fits(heap_next, chunk_size(darg), HeapSize)
       THEN /\ heap_next' = heap_next + chunk_size(darg)
            /\ dpc' = "idle"
            /\ darg' = 0 /\ dlock' = FALSE
            /\ UNCHANGED <<collections, sdmsg, stainted, inbox, dret>>
       ELSE /\ Collect
            /\ dpc' = "a_lock"
            /\ UNCHANGED <<darg, dlock>>
    /\ alloc_lock' = IF dlock THEN Unlocked(Owner) ELSE alloc_lock
    /\ UNCHANGED <<allocVars, inbox_write, inbox_lock, inbox_block, waiting,
                   processes, children, exited, spc, sgcs, sleft, scol, spend,
                   snum, di, dfound, dscope, logVars, peerVars, valVars,
                   strVars, bufVars, life, appVars, stackVars, threadVars,
                   keyVars>>

\* if (!(vm->heap.next + size < vm->heap.end))
RequireFits(next, size, end) == next + size < end

\* idris_requireAlloc(size): the test, and idris_gc(vm) when it fails
RequireCall ==
    /\ ~exited
    /\ dpc = "idle"
    /\ darg' = ObjChunk
    /\ IF RequireFits(heap_next, ObjChunk, HeapSize)
       THEN UNCHANGED <<heapVars, sdmsg, stainted, inbox, dret>>
       ELSE Collect
    /\ dpc' = "q_lock"
    /\ chk' = NoChk
    /\ UNCHANGED <<allocVars, inbox_write, lockVars, processes, children,
                   exited, spc, sgcs, sleft, scol, spend, snum, dlock, di,
                   dfound, dscope, sentLog, recvLog, faults, peerVars,
                   valVars, strVars, bufVars, life, appVars, stackVars,
                   threadVars, keyVars>>

\* int lock = vm->processes > 0; if (lock) pthread_mutex_lock(...); return
RequireLock ==
    /\ ~exited
    /\ dpc = "q_lock"
    /\ IF processes > 0
       THEN CanLock(Owner) /\ alloc_lock' = Locked(Owner)
       ELSE alloc_lock' = alloc_lock
    /\ dscope' = [open |-> TRUE, locked |-> processes > 0, next |-> heap_next,
                  gcs |-> collections, used |-> 0]
    /\ dpc' = "q_in"
    /\ UNCHANGED <<heapVars, allocVars, boxVars, inbox_lock, inbox_block,
                   waiting, processes, children, exited, sndVars, darg, dlock,
                   di, dfound, dret, logVars, peerVars, valVars, strVars,
                   bufVars, life, appVars, stackVars, threadVars, keyVars>>

\* inside the scope: one allocate(size, 1) of an outer-lock constructor,
\* whose chunk is the size that was reserved; when it does not fit,
\* idris_gc(vm) and allocate(size, 0) again
ScopeAlloc ==
    /\ ~exited
    /\ dpc = "q_in"
    /\ IF Fits(heap_next, chunk_size(ObjSize), HeapSize)
       THEN /\ heap_next' = heap_next + chunk_size(ObjSize)
            /\ dscope' = [dscope EXCEPT !.used = @ + chunk_size(ObjSize)]
            /\ dpc' = "q_done"
            /\ UNCHANGED <<collections, sdmsg, stainted, inbox, dret>>
       ELSE /\ Collect
            /\ UNCHANGED <<dscope, dpc>>
    /\ UNCHANGED <<allocVars, inbox_write, lockVars, processes, children,
                   exited, spc, sgcs, sleft, scol, spend, snum, darg, dlock,
                   di, dfound, logVars, peerVars, valVars, strVars, bufVars,
                   life, appVars, stackVars, threadVars, keyVars>>

\* idris_doneAlloc(): if (vm->processes > 0) pthread_mutex_unlock(...)
DoneAlloc ==
    /\ ~exited
    /\ dpc = "q_done"
    /\ alloc_lock' = IF processes > 0 THEN Unlocked(Owner) ELSE alloc_lock
    /\ dscope' = NoScope
    /\ dpc' = "idle"
    /\ darg' = 0
    /\ UNCHANGED <<heapVars, allocVars, boxVars, inbox_lock, inbox_block,
                   waiting, processes, children, exited, sndVars, dlock, di,
                   dfound, dret, logVars, peerVars, valVars, strVars, bufVars,
                   life, appVars, stackVars, threadVars, keyVars>>

\* vmThread(callvm, f, arg), called by the owner of callvm between two
\* operations or inside a requireAlloc scope: callvm->processes++;
Spawn ==
    /\ ~exited
    /\ dpc \in {"idle", "q_in", "q_done"}
    /\ children < MaxChildren
    /\ processes' = processes + 1
    /\ children' = children + 1
    /\ UNCHANGED <<heapVars, allocVars, boxVars, lockVars, exited, sndVars,
                   ownVars, logVars, peerVars, valVars, strVars, bufVars,
                   life, appVars, stackVars, threadVars, keyVars>>

\* runThread of a child, when td->fn returns: callvm->processes--;
ChildExit ==
    /\ ~exited
    /\ children > 0
    /\ processes' = processes - 1
    /\ children' = children - 1
    /\ UNCHANGED <<heapVars, allocVars, boxVars, lockVars, exited, sndVars,
                   ownVars, logVars, peerVars, valVars, strVars, bufVars,
                   life, appVars, stackVars, threadVars, keyVars>>

OwnerAllocates ==
    \/ OwnAllocCall
    \/ OwnAllocLock
    \/ OwnAllocTry
    \/ RequireCall
    \/ RequireLock
    \/ ScopeAlloc
    \/ DoneAlloc

OwnerStep ==
    \/ idris_recvMessageFrom
    \/ idris_checkMessagesFrom
    \/ OwnerAllocates

Init == InitHeap /\ InitMsg

Next ==
    \/ \E s \in Senders : idris_sendMessage(s)
    \/ OwnerStep

Spec == Init /\ [][Next]_vars

(***************************************************************************)
(* The main VM (processes = 0 after init_vm), its owner in requireAlloc    *)
(* scopes while it spawns children and they finish, and peers sending to   *)
(* it.                                                                     *)
(***************************************************************************)
InitScope == InitHeap /\ InitVM(0)

NextScope ==
    \/ RequireCall
    \/ RequireLock
    \/ ScopeAlloc
    \/ DoneAlloc
    \/ Spawn
    \/ ChildExit
    \/ \E s \in Senders : idris_sendMessage(s)

SpecScope == InitScope /\ [][NextScope]_vars

\* the same VM with its owner in plain allocate calls
NextHeap ==
    \/ OwnAllocCall
    \/ OwnAllocLock
    \/ OwnAllocTry
    \/ Spawn
    \/ ChildExit
    \/ \E s \in Senders : idris_sendMessage(s)

SpecHeap == InitScope /\ [][NextHeap]_vars

(***************************************************************************)
(* copyTo: the calling thread rebinds vm_key to the destination for the    *)
(* time of the copy.  Two VMs, each with its own thread; the heap of a VM  *)
(* is counted in chunks of one object.                                     *)
(***************************************************************************)
\* a second call that works on the VM the thread owns
RetryVm_Own(t) == t

\* the VM the second call of allocate works on: allocate(size, 0) reads
\* vm_key again
RetryVm(t) == vm_key[t]

\* allocate(size, outerlock) by thread t: the VMs it works on, as
\* [first, gc, last]: the VM of the call, whether it collected, and the VM
\* the chunk came from
AllocOn(t) ==
    LET vm == vm_key[t] IN
    IF kvm[vm].next + 1 < KeyHeapChunks
    THEN [first |-> vm, gc |-> FALSE, last |-> vm]
    ELSE [first |-> vm, gc |-> TRUE, last |-> RetryVm(t)]

\* the VMs after that call: idris_gc empties the heap of the first VM, the
\* chunk is taken from the last
KvmAfter(a) ==
    LET g == IF a.gc
             THEN [kvm EXCEPT ![a.first].next = 0,
                              ![a.first].collections = @ + 1]
             ELSE kvm
    IN [g EXCEPT ![a.last].next = @ + 1]

KeyAllocEnabled(t, outerlock) ==
    LET a == AllocOn(t) IN
    /\ ~outerlock => kvm[a.first].lock \in {0, t}
    /\ a.gc => /\ kvm[a.first].collections < MaxCollections
               /\ kvm[a.last].lock \in {0, t}
               /\ kvm[a.last].next + 1 < KeyHeapChunks \/ a.last = a.first

\* the thread allocates for its own program
KeyOwnAlloc(t) ==
    /\ kth[t].pc = "run"
    /\ KeyAllocEnabled(t, FALSE)
    /\ kvm' = KvmAfter(AllocOn(t))
    /\ UNCHANGED <<heapVars, allocVars, msgVars, peerVars, valVars, strVars,
                   bufVars, life, appVars, stackVars, threadVars, vm_key, kth>>

\* idris_sendMessage up to the first statement of copyTo
KeySendCall(t, d) ==
    /\ kth[t].pc = "run"
    /\ d # t
    /\ kth[t].sent < MaxPeerSends
    /\ kvm[d].lock = 0
    /\ kvm' = [kvm EXCEPT ![d].lock = t]
    /\ kth' = [kth EXCEPT ![t] = [@ EXCEPT !.pc = "copy", !.dest = d,
                  !.gcs = kvm[d].collections, !.left = MsgObjs,
                  !.before = vm_key[t], !.touched = {},
                  !.retried = FALSE, !.current = vm_key[t]]]
    /\ vm_key' = [vm_key EXCEPT ![t] = d]
    /\ UNCHANGED <<heapVars, allocVars, msgVars, peerVars, valVars, strVars,
                   bufVars, life, appVars, stackVars, threadVars>>

\* copyTo after the unlock of the first copy, when a collection was seen
KeyCopyAgain(t) ==
    /\ kth[t].pc = "check"
    /\ kvm[kth[t].dest].collections > kth[t].gcs
    /\ kvm[kth[t].dest].lock = 0
    /\ kvm' = [kvm EXCEPT ![kth[t].dest].lock = t]
    /\ kth' = [kth EXCEPT ![t] = [@ EXCEPT !.pc = "copy",
                  !.gcs = kvm[kth[t].dest].collections, !.left = MsgObjs,
                  !.current = vm_key[t]]]
    /\ vm_key' = [vm_key EXCEPT ![t] = kth[t].dest]
    /\ UNCHANGED <<heapVars, allocVars, msgVars, peerVars, valVars, strVars,
                   bufVars, life, appVars, stackVars, threadVars>>

\* one allocate(size, 1) of doCopyTo
KeyCopyAlloc(t) ==
    LET a == AllocOn(t) IN
    /\ kth[t].pc = "copy"
    /\ kth[t].left > 0
    /\ KeyAllocEnabled(t, TRUE)
    /\ kvm' = KvmAfter(a)
    /\ kth' = [kth EXCEPT ![t] = [@ EXCEPT !.left = @ - 1,
                  !.touched = @ \cup {<<"heap", a.first>>, <<"heap", a.last>>},
                  !.retried = @ \/ a.gc]]
    /\ UNCHANGED <<heapVars, allocVars, msgVars, peerVars, valVars, strVars,
                   bufVars, life, appVars, stackVars, threadVars, vm_key>>

\* the binding copyTo leaves behind
Restore(current, vm) == current

\* the end of copyTo and the unlock after it
KeyCopyReturn(t) ==
    /\ kth[t].pc = "copy"
    /\ kth[t].left = 0
    /\ vm_key' = [vm_key EXCEPT ![t] = Restore(kth[t].current, kth[t].dest)]
    /\ kvm' = [kvm EXCEPT ![kth[t].dest].lock = 0]
    /\ kth' = [kth EXCEPT ![t].pc = "check"]
    /\ UNCHANGED <<heapVars, allocVars, msgVars, peerVars, valVars, strVars,
                   bufVars, life, appVars, stackVars, threadVars>>

\* the store of the message in the mailbox of the destination
KeyStore(t) ==
    /\ kth[t].pc = "check"
    /\ kvm[kth[t].dest].collections <= kth[t].gcs
    /\ kvm' = [kvm EXCEPT ![kth[t].dest].inbox = @ + 1]
    /\ kth' = [kth EXCEPT ![t] = [@ EXCEPT !.pc = "run", !.sent = @ + 1,
                  !.touched = @ \cup {<<"inbox", kth[t].dest>>}]]
    /\ UNCHANGED <<heapVars, allocVars, msgVars, peerVars, valVars, strVars,
                   bufVars, life, appVars, stackVars, threadVars, vm_key>>

NextKey ==
    \/ \E t \in Peers : KeyOwnAlloc(t)
    \/ \E t, d \in Peers : KeySendCall(t, d)
    \/ \E t \in Peers : KeyCopyAlloc(t)
    \/ \E t \in Peers : KeyCopyReturn(t)
    \/ \E t \in Peers : KeyCopyAgain(t)
    \/ \E t \in Peers : KeyStore(t)

SpecKey == Init /\ [][NextKey]_vars

(***************************************************************************)
(* Two VMs in concurrent mode (processes > 0) whose threads send to one    *)
(* another, receive, and open requireAlloc scopes: the locks only.         *)
(***************************************************************************)
\* idris_requireAlloc: if (lock) pthread_mutex_lock(&vm->alloc_lock);
PeerRequire(t) ==
    /\ ppc[t] = "idle"
    /\ ~pscope[t]
    /\ plock[t].owner \in {0, t}
    /\ plock' = [plock EXCEPT ![t] = [owner |-> t, count |-> @.count + 1]]
    /\ pscope' = [pscope EXCEPT ![t] = TRUE]
    /\ UNCHANGED <<heapVars, allocVars, msgVars, pilock, pblock, pbox, ppc,
                   pdest, pcopied, psent, valVars, strVars, bufVars, life,
                   appVars, stackVars, threadVars, keyVars>>

\* pthread_mutex_unlock of the recursive alloc_lock of VM v by thread t
PeerUnlocked(v, t) ==
    IF plock[v].owner # t THEN plock[v]
    ELSE IF plock[v].count <= 1 THEN [owner |-> 0, count |-> 0]
    ELSE [plock[v] EXCEPT !.count = @ - 1]

\* idris_doneAlloc: if (lock) pthread_mutex_unlock(&vm->alloc_lock);
PeerDone(t) ==
    /\ ppc[t] = "idle"
    /\ pscope[t]
    /\ plock' = [plock EXCEPT ![t] = PeerUnlocked(t, t)]
    /\ pscope' = [pscope EXCEPT ![t] = FALSE]
    /\ UNCHANGED <<heapVars, allocVars, msgVars, pilock, pblock, pbox, ppc,
                   pdest, pcopied, psent, valVars, strVars, bufVars, life,
                   appVars, stackVars, threadVars, keyVars>>

\* idris_sendMessage(sender, dest, msg) is called, inside a scope or not
PeerSendCall(t, d) ==
    /\ ppc[t] = "idle"
    /\ psent[t] < MaxPeerSends
    /\ psent' = [psent EXCEPT ![t] = @ + 1]
    /\ pdest' = [pdest EXCEPT ![t] = d]
    /\ pcopied' = [pcopied EXCEPT ![t] = 0]
    /\ ppc' = [ppc EXCEPT ![t] = "lock"]
    /\ UNCHANGED <<heapVars, allocVars, msgVars, plock, pilock, pblock, pbox,
                   pscope, valVars, strVars, bufVars, life, appVars,
                   stackVars, threadVars, keyVars>>

\* pthread_mutex_lock(&dest->alloc_lock), before either copy
PeerLockAlloc(t) ==
    /\ ppc[t] = "lock"
    /\ plock[pdest[t]].owner \in {0, t}
    /\ plock' = [plock EXCEPT ![pdest[t]] = [owner |-> t, count |-> @.count + 1]]
    /\ ppc' = [ppc EXCEPT ![t] = "copy"]
    /\ UNCHANGED <<heapVars, allocVars, msgVars, pilock, pblock, pbox, pdest,
                   pcopied, pscope, psent, valVars, strVars, bufVars, life,
                   appVars, stackVars, threadVars, keyVars>>

\* dmsg = copyTo(dest, msg); pthread_mutex_unlock(&dest->alloc_lock);
PeerCopy(t) ==
    /\ ppc[t] = "copy"
    /\ pcopied' = [pcopied EXCEPT ![t] = @ + 1]
    /\ plock' = [plock EXCEPT ![pdest[t]] = PeerUnlocked(pdest[t], t)]
    /\ ppc' = [ppc EXCEPT ![t] = "recheck"]
    /\ UNCHANGED <<heapVars, allocVars, msgVars, pilock, pblock, pbox, pdest,
                   pscope, psent, valVars, strVars, bufVars, life, appVars,
                   stackVars, threadVars, keyVars>>

\* if (dest->stats.collections > gcs): the copy is made again, once
PeerRecheck(t) ==
    /\ ppc[t] = "recheck"
    /\ \/ pcopied[t] = 1 /\ ppc' = [ppc EXCEPT ![t] = "lock"]
       \/ ppc' = [ppc EXCEPT ![t] = "ilock"]
    /\ UNCHANGED <<heapVars, allocVars, msgVars, plock, pilock, pblock, pbox,
                   pdest, pcopied, pscope, psent, valVars, strVars, bufVars,
                   life, appVars, stackVars, threadVars, keyVars>>

\* pthread_mutex_lock(&(dest->inbox_lock)); and the append
PeerLockInbox(t) ==
    /\ ppc[t] = "ilock"
    /\ pilock[pdest[t]] = 0
    /\ pilock' = [pilock EXCEPT ![pdest[t]] = t]
    /\ pbox' = [pbox EXCEPT ![pdest[t]] = @ + 1]
    /\ ppc' = [ppc EXCEPT ![t] = "block"]
    /\ UNCHANGED <<heapVars, allocVars, msgVars, plock, pblock, pdest,
                   pcopied, pscope, psent, valVars, strVars, bufVars, life,
                   appVars, stackVars, threadVars, keyVars>>

\* pthread_mutex_lock(&dest->inbox_block); pthread_cond_signal(...);
\* pthread_mutex_unlock(&dest->inbox_block);
PeerSignal(t) ==
    /\ ppc[t] = "block"
    /\ pblock[pdest[t]] = 0
    /\ ppc' = [ppc EXCEPT ![t] = "iunlock"]
    /\ UNCHANGED <<heapVars, allocVars, msgVars, plock, pilock, pblock, pbox,
                   pdest, pcopied, pscope, psent, valVars, strVars, bufVars,
                   life, appVars, stackVars, threadVars, keyVars>>

\* pthread_mutex_unlock(&(dest->inbox_lock)); and the return
PeerUnlockInbox(t) ==
    /\ ppc[t] = "iunlock"
    /\ pilock' = [pilock EXCEPT ![pdest[t]] = 0]
    /\ pdest' = [pdest EXCEPT ![t] = 0]
    /\ pcopied' = [pcopied EXCEPT ![t] = 0]
    /\ ppc' = [ppc EXCEPT ![t] = "idle"]
    /\ UNCHANGED <<heapVars, allocVars, msgVars, plock, pblock, pbox, pscope,
                   psent, valVars, strVars, bufVars, life, appVars, stackVars,
                   threadVars, keyVars>>

\* idris_recvMessage(vm): pthread_mutex_lock(&vm->inbox_block), at entry
\* and when the timed wait ends
PeerRecvLock(t) ==
    /\ ppc[t] \in {"idle", "r_wait"}
    /\ pblock[t] = 0
    /\ pblock' = [pblock EXCEPT ![t] = t]
    /\ ppc' = [ppc EXCEPT ![t] = "r_scan"]
    /\ UNCHANGED <<heapVars, allocVars, msgVars, plock, pilock, pbox, pdest,
                   pcopied, pscope, psent, valVars, strVars, bufVars, life,
                   appVars, stackVars, threadVars, keyVars>>

\* idris_getMessageFrom; no entry: pthread_cond_timedwait releases
\* inbox_block; an entry: pthread_mutex_unlock(&vm->inbox_block)
PeerRecvScan(t) ==
    /\ ppc[t] = "r_scan"
    /\ pblock' = [pblock EXCEPT ![t] = 0]
    /\ ppc' = [ppc EXCEPT ![t] = IF pbox[t] = 0 THEN "r_wait" ELSE "r_ilock"]
    /\ UNCHANGED <<heapVars, allocVars, msgVars, plock, pilock, pbox, pdest,
                   pcopied, pscope, psent, valVars, strVars, bufVars, life,
                   appVars, stackVars, threadVars, keyVars>>

\* pthread_mutex_lock(&(vm->inbox_lock)); and the removal
PeerRecvLockInbox(t) ==
    /\ ppc[t] = "r_ilock"
    /\ pilock[t] = 0
    /\ pilock' = [pilock EXCEPT ![t] = t]
    /\ pbox' = [pbox EXCEPT ![t] = @ - 1]
    /\ ppc' = [ppc EXCEPT ![t] = "r_iunlock"]
    /\ UNCHANGED <<heapVars, allocVars, msgVars, plock, pblock, pdest,
                   pcopied, pscope, psent, valVars, strVars, bufVars, life,
                   appVars, stackVars, threadVars, keyVars>>

\* pthread_mutex_unlock(&(vm->inbox_lock)); return ret;
PeerRecvReturn(t) ==
    /\ ppc[t] = "r_iunlock"
    /\ pilock' = [pilock EXCEPT ![t] = 0]
    /\ ppc' = [ppc EXCEPT ![t] = "idle"]
    /\ UNCHANGED <<heapVars, allocVars, msgVars, plock, pblock, pbox, pdest,
                   pcopied, pscope, psent, valVars, strVars, bufVars, life,
                   appVars, stackVars, threadVars, keyVars>>

PeerStep(t) ==
    \/ PeerRequire(t)
    \/ PeerDone(t)
    \/ \E d \in Peers \ {t} : PeerSendCall(t, d)
    \/ PeerLockAlloc(t)
    \/ PeerCopy(t)
    \/ PeerRecheck(t)
    \/ PeerLockInbox(t)
    \/ PeerSignal(t)
    \/ PeerUnlockInbox(t)
    \/ PeerRecvLock(t)
    \/ PeerRecvScan(t)
    \/ PeerRecvLockInbox(t)
    \/ PeerRecvReturn(t)

NextPeers == \E t \in Peers : PeerStep(t)

SpecPeers == Init /\ [][NextPeers]_vars

(***************************************************************************)
(* The VMs of one process, the values they build and copy to one another,  *)
(* and the table of nullary constructors.                                  *)
(***************************************************************************)
\* init_nullaries: for(i = 0; i < 256; ++i), and the test of doCopyTo
NullaryLimit == 256

\* nullary_cons[t] after the g-th init_nullaries
nullary_cons(g, t) ==
    [ty |-> "CON", at |-> Table(g), tag |-> t, args |-> << >>]

MKINT == [ty |-> "INT", at |-> Imm, tag |-> 0, args |-> << >>]

\* the types doCopyTo has a case for, besides CON
CopiedTypes == {"FLOAT", "STRING", "BUFFER", "BIGINT", "PTR", "MANAGEDPTR",
                "BITS8", "BITS16", "BITS32", "BITS64"}

\* the result of a call that ends in assert(0)
Trap == [ty |-> "TRAP", at |-> Imm, tag |-> 0, args |-> << >>]

\* if (ar == 0 && CTAG(x) < 256) { // globally allocated
IsGloballyAllocated(x) ==
    Len(x.args) = 0 /\ x.tag < NullaryLimit

RECURSIVE doCopyTo(_, _)
doCopyTo(vm, x) ==
    IF x.ty \in {"NULL", "INT"} THEN x
    ELSE IF x.ty = "CON" THEN
        IF IsGloballyAllocated(x) THEN x
        ELSE LET args == [i \in 1..Len(x.args) |-> doCopyTo(vm, x.args[i])] IN
             IF \E i \in 1..Len(args) : args[i] = Trap THEN Trap
             ELSE [ty |-> "CON", at |-> Heap(vm), tag |-> x.tag, args |-> args]
    ELSE IF x.ty \in CopiedTypes THEN [x EXCEPT !.at = Heap(vm)]
    ELSE Trap

\* the values the program of VM v builds: immediates, NULL_CON(t) for a
\* nullary constructor with t < 256, and objects of its own heap
LeafTags == {0, NullaryLimit - 1}
Leaves(v) ==
    {MKINT}
    \cup {nullary_cons(nullaries, t) : t \in LeafTags}
    \cup {[ty |-> "CON", at |-> Heap(v), tag |-> NullaryLimit, args |-> << >>]}
    \cup {[ty |-> ty, at |-> Heap(v), tag |-> 0, args |-> << >>] :
             ty \in {"STRING", "STROFFSET"}}
Built(v) ==
    Leaves(v)
    \cup {[ty |-> "CON", at |-> Heap(v), tag |-> 1, args |-> <<a>>] :
             a \in Leaves(v)}

\* init_vm called on its own: a VM and no table
InitVmAlone ==
    /\ ~aborted
    /\ nvms < MaxVMs
    /\ nvms' = nvms + 1
    /\ UNCHANGED <<heapVars, allocVars, msgVars, peerVars, nullaries, held,
                   lastcopy, aborted, strVars, bufVars, life, appVars,
                   stackVars, threadVars, keyVars>>

\* idris_vm: init_vm, then init_nullaries: nullary_cons = malloc(...)
IdrisVm ==
    /\ ~aborted
    /\ nvms < MaxVMs
    /\ nullaries < MaxTables
    /\ nvms' = nvms + 1
    /\ nullaries' = nullaries + 1
    /\ UNCHANGED <<heapVars, allocVars, msgVars, peerVars, held, lastcopy,
                   aborted, strVars, bufVars, life, appVars, stackVars,
                   threadVars, keyVars>>

\* vmThread(callvm, f, arg): init_vm for the child; the table is not touched
VmThread(callvm) ==
    /\ ~aborted
    /\ callvm \in 1..nvms
    /\ nvms < MaxVMs
    /\ nvms' = nvms + 1
    /\ UNCHANGED <<heapVars, allocVars, msgVars, peerVars, nullaries, held,
                   lastcopy, aborted, strVars, bufVars, life, appVars,
                   stackVars, threadVars, keyVars>>

\* the program of VM v builds a value
Build(v, x) ==
    /\ ~aborted
    /\ v \in 1..nvms
    /\ nullaries > 0
    /\ x # held[v]
    /\ held' = [held EXCEPT ![v] = x]
    /\ UNCHANGED <<heapVars, allocVars, msgVars, peerVars, nvms, nullaries,
                   lastcopy, aborted, strVars, bufVars, life, appVars,
                   stackVars, threadVars, keyVars>>

\* copyTo(dst, x) by the thread of src, as in idris_sendMessage and vmThread
CopyTo(src, dst, x) ==
    /\ ~aborted
    /\ src \in 1..nvms /\ dst \in 1..nvms /\ src # dst
    /\ x = held[src]
    /\ LET ret == doCopyTo(dst, x) IN
       /\ lastcopy' = [src |-> src, dst |-> dst, x |-> x, ret |-> ret]
       /\ aborted' = (ret = Trap)
       /\ held' = IF ret = Trap THEN held ELSE [held EXCEPT ![dst] = ret]
    /\ UNCHANGED <<heapVars, allocVars, msgVars, peerVars, nvms, nullaries,
                   strVars, bufVars, life, appVars, stackVars, threadVars,
                   keyVars>>

NextCopy ==
    \/ \E callvm \in 1..MaxVMs : VmThread(callvm)
    \/ \E v \in 1..MaxVMs : \E x \in Built(v) : Build(v, x)
    \/ \E src, dst \in 1..MaxVMs : CopyTo(src, dst, held[src])

\* a process that starts as the generated main does: idris_vm, once
SpecCopy == Init /\ [][NextCopy]_vars

\* a process that calls the VM factories in any order
InitBoot ==
    /\ InitHeap
    /\ InitRts(1)
    /\ nvms = 0
    /\ nullaries = 0
    /\ held = [v \in 1..MaxVMs |-> NoVal]
    /\ lastcopy = NoCopy
    /\ aborted = FALSE
    /\ InitStr
    /\ InitBuf({SizeofVAL})
    /\ InitLife
    /\ InitKey

NextBoot ==
    \/ InitVmAlone
    \/ IdrisVm
    \/ NextCopy

SpecBoot == InitBoot /\ [][NextBoot]_vars

(***************************************************************************)
(* Strings: idris_strTail and idris_strCons on the heap of one VM, with a  *)
(* peer that sends messages into that heap.                                *)
(***************************************************************************)
\* int space(VM* vm, size_t size)
space(next, size, end) == next + size + SizeT < end

\* an object of the old semi-space after a collection: its header is FWD
FwdObj == [ty |-> "FWD", bytes |-> << >>, off |-> 0, root |-> << >>]
\* a str field that holds no pointer to an object
JunkObj == [ty |-> "JUNK", bytes |-> << >>, off |-> 0, root |-> << >>]

Drop(s, k) == IF k >= Len(s) THEN << >> ELSE SubSeq(s, k + 1, Len(s))

\* GETSTROFF: root->str->info.str + root->offset
GETSTROFF(v) == Drop(v.root[1].bytes, v.off)
\* GETSTR: the bytes of a STRING, GETSTROFF of anything else
GETSTR(v) == IF v.ty = "STRING" THEN v.bytes ELSE GETSTROFF(v)

\* while(root!=NULL && !ISSTR(root)) { offset += ...; root = ...; }
RECURSIVE FindRoot(_, _)
FindRoot(root, offset) ==
    IF root.ty = "STRING" \/ root.root = << >>
    THEN [root |-> root, offset |-> offset]
    ELSE FindRoot(root.root[1], offset + root.off)

\* the bytes of the heap the roots reach from v
LiveOf(v) ==
    IF v.ty = "STRING" THEN StringChunk(Len(v.bytes))
    ELSE StrOffsetChunk + StringChunk(Len(v.root[1].bytes))

\* allocate(size, ...) of a chunk on this heap: heap.next afterwards, and
\* whether idris_gc ran
StrAllocNext(chunk) ==
    IF Fits(str_next, chunk, StrHeapSize) THEN str_next + chunk
    ELSE LiveOf(sval) + chunk
StrAllocGC(chunk) == ~Fits(str_next, chunk, StrHeapSize)
StrAlloc(chunk) ==
    /\ StrAllocGC(chunk) =>
          /\ str_gcs < MaxStrGCs
          /\ Fits(LiveOf(sval), chunk, StrHeapSize)
    /\ str_next' = StrAllocNext(chunk)
    /\ str_gcs' = IF StrAllocGC(chunk) THEN str_gcs + 1 ELSE str_gcs

\* idris_strTail(vm, str): the test of space, and the else branch
\* MKSTR(vm, GETSTR(str)+1)
StrTailCall ==
    /\ tpc = "idle"
    /\ sval.ty \in {"STRING", "STROFFSET"}
    /\ sval.ty = "STROFFSET" => sval.root[1].ty = "STRING"
    /\ Len(GETSTR(sval)) > 0
    /\ IF space(str_next, SizeofClosure + SizeofStrOffset, StrHeapSize)
       THEN /\ tpc' = "alloc"
            /\ tstale' = FALSE
            /\ UNCHANGED <<str_next, str_gcs, sval, expect, steps>>
       ELSE /\ StrAlloc(StringChunk(Len(GETSTR(sval)) - 1))
            /\ sval' = MKSTR(Tail(GETSTR(sval)))
            /\ expect' = Tail(expect)
            /\ steps' = 0
            /\ UNCHANGED <<tpc, tstale>>
    /\ UNCHANGED <<heapVars, allocVars, msgVars, peerVars, valVars, tsends,
                   bufVars, life, appVars, stackVars, threadVars, keyVars>>

\* the then branch: allocate takes alloc_lock and may collect; str is a C
\* parameter, not a root, so after a collection it addresses the old object
StrTailAlloc ==
    /\ tpc = "alloc"
    /\ StrAlloc(StrOffsetChunk)
    /\ IF tstale \/ StrAllocGC(StrOffsetChunk)
       THEN \E bad \in {"fault", "junk"} :
               IF bad = "fault"
               THEN /\ tpc' = "fault"
                    /\ UNCHANGED <<sval, expect, steps>>
               ELSE /\ tpc' = "idle"
                    /\ sval' = StrOff(JunkObj, FindRoot(FwdObj, 0).offset + 1)
                    /\ expect' = Tail(expect)
                    /\ steps' = steps + 1
       ELSE LET r == FindRoot(sval, 0) IN
            /\ tpc' = "idle"
            /\ sval' = StrOff(r.root, r.offset + 1)
            /\ expect' = Tail(expect)
            /\ steps' = steps + 1
    /\ tstale' = FALSE
    /\ UNCHANGED <<heapVars, allocVars, msgVars, peerVars, valVars, tsends,
                   bufVars, life, appVars, stackVars, threadVars, keyVars>>

\* idris_strCons(vm, x, xs)
StrCons(c) ==
    /\ tpc = "idle"
    /\ sval.ty \in {"STRING", "STROFFSET"}
    /\ sval.ty = "STROFFSET" => sval.root[1].ty = "STRING"
    /\ Len(GETSTR(sval)) < MaxStrLen
    /\ StrAlloc(StringChunk(Len(GETSTR(sval)) + 1))
    /\ sval' = MKSTR(<<c>> \o GETSTR(sval))
    /\ expect' = <<c>> \o expect
    /\ steps' = 0
    /\ UNCHANGED <<heapVars, allocVars, msgVars, peerVars, valVars, tpc,
                   tstale, tsends, bufVars, life, appVars, stackVars,
                   threadVars, keyVars>>

\* idris_sendMessage(peer, vm, msg) up to the unlock of alloc_lock: the
\* copy is allocated in this heap, with a collection when it does not fit
StrPeerSend ==
    /\ processes > 0
    /\ tpc # "fault"
    /\ tsends < MaxStrSends
    /\ tsends' = tsends + 1
    /\ StrAlloc(ObjChunk)
    /\ tstale' = (tstale \/ (tpc = "alloc" /\ StrAllocGC(ObjChunk)))
    /\ UNCHANGED <<heapVars, allocVars, msgVars, peerVars, valVars, sval,
                   expect, steps, tpc, bufVars, life, appVars, stackVars,
                   threadVars, keyVars>>

NextStr ==
    \/ StrTailCall
    \/ StrTailAlloc
    \/ \E c \in Chars : StrCons(c)
    \/ StrPeerSend

SpecStr == Init /\ [][NextStr]_vars

(***************************************************************************)
(* Buffers: idris_buffer_allocate, idris_appendB{16,32,64}{LE,BE} and      *)
(* idris_peekB{16,32,64}{LE,BE}.                                           *)
(***************************************************************************)
Widths == {16, 32, 64}
Orders == {"LE", "BE"}
ByteSamples == {0, 255}
BitsValues(n) == [1..(n \div 8) -> ByteSamples]
Hints == {0, 8}

\* sizeof(Closure) + sizeof(Buffer): two words each
BufHeader == 4 * ptr_bytes

\* --size; size |= size >> 1, 2, 4, ...; ++size: the next power of two
RECURSIVE Pow2From(_, _)
Pow2From(p, size) == IF p >= size THEN p ELSE Pow2From(2 * p, size)
Pow2Up(size) == Pow2From(1, size)

\* internal_allocate(vm, hint): cap, and a zeroed store (allocate zeroes)
internal_allocate(hint, fill) ==
    LET cap == Pow2Up(hint + BufHeader) - BufHeader IN
    [cap |-> cap, fill |-> fill, store |-> [i \in 1..cap |-> 0]]

\* idris_buffer_allocate(vm, hint)
idris_buffer_allocate(hint) ==
    /\ bpc = "none"
    /\ buf' = internal_allocate(hint, 0)
    /\ bpc' = "empty"
    /\ UNCHANGED <<heapVars, allocVars, msgVars, peerVars, valVars, strVars,
                   ptr_bytes, bapp, bpeek, life, appVars, stackVars,
                   threadVars, keyVars>>

\* internal_prepare_append(vm, buf, bufLen, appLen)
internal_prepare_append(b, bufLen, appLen) ==
    LET totalLen == bufLen + appLen IN
    IF bufLen # b.fill \/ totalLen > b.cap
    THEN LET cl == internal_allocate(totalLen, totalLen) IN
         [cl EXCEPT !.store =
             [i \in 1..cl.cap |-> IF i <= bufLen THEN b.store[i] ELSE 0]]
    ELSE [b EXCEPT !.fill = @ + appLen]

\* unsigned char leVal[sizeof val] = { v, v >> 8, ... }: val is a VAL, so
\* the array has sizeof(VAL) elements; initialisers past its end are
\* dropped, elements without one are zero
leVal(v) == [i \in 1..ptr_bytes |-> IF i <= Len(v) THEN v[i] ELSE 0]
\* unsigned char beVal[sizeof val] = { ..., v >> 8, v }
beVal(v) ==
    [i \in 1..ptr_bytes |-> IF i <= Len(v) THEN v[Len(v) + 1 - i] ELSE 0]

\* internal_append_bits(vm, buf, bufLen, cnt, val, val_len), with cnt = 1:
\* internal_memset copies the val_len bytes of val to store + len
internal_append_bits(b, len, val) ==
    LET cl == internal_prepare_append(b, len, Len(val)) IN
    [cl EXCEPT !.store =
        [i \in 1..cl.cap |->
            IF i > len /\ i <= len + Len(val) THEN val[i - len] ELSE @[i]]]

\* idris_appendB{n}{LE,BE}(vm, buf, len, cnt, val) with len = fill, cnt = 1
idris_appendBits(n, order, v) ==
    /\ bpc = "empty"
    /\ buf' = internal_append_bits(buf, buf.fill,
                                   IF order = "LE" THEN leVal(v) ELSE beVal(v))
    /\ bapp' = [n |-> n, order |-> order, v |-> v]
    /\ bpc' = "appended"
    /\ UNCHANGED <<heapVars, allocVars, msgVars, peerVars, valVars, strVars,
                   ptr_bytes, bpeek, life, appVars, stackVars, threadVars,
                   keyVars>>

\* idris_peekB{n}LE: store[offset] + (store[offset+1] << 8) + ...
peekLE(b, offset, n) == [k \in 1..(n \div 8) |-> b.store[offset + k]]
\* idris_peekB{n}BE: store[offset + n/8 - 1] + (store[offset + n/8 - 2] << 8) ...
peekBE(b, offset, n) ==
    [k \in 1..(n \div 8) |-> b.store[offset + (n \div 8) + 1 - k]]

\* idris_peekB{n}{LE,BE}(vm, buf, 0) on the buffer the append returned
idris_peekBits(order) ==
    /\ bpc = "appended"
    /\ bpeek' = [order |-> order,
                 val |-> IF order = "LE" THEN peekLE(buf, 0, bapp.n)
                         ELSE peekBE(buf, 0, bapp.n)]
    /\ bpc' = "peeked"
    /\ UNCHANGED <<heapVars, allocVars, msgVars, peerVars, valVars, strVars,
                   ptr_bytes, buf, bapp, life, appVars, stackVars, threadVars,
                   keyVars>>

NextBuf ==
    \/ \E hint \in Hints : idris_buffer_allocate(hint)
    \/ \E n \in Widths : \E order \in Orders : \E v \in BitsValues(n) :
          idris_appendBits(n, order, v)
    \/ \E order \in Orders : idris_peekBits(order)

\* the runtime built for 32-bit and for 64-bit pointers
InitBufAny ==
    /\ InitHeap /\ InitRts(1) /\ InitVals /\ InitStr /\ InitLife /\ InitKey
    /\ InitBuf(PtrSizes)

SpecBuf == InitBufAny /\ [][NextBuf]_vars

(***************************************************************************)
(* Appends to the buffers of one heap.  The program holds views: a buffer  *)
(* and the length it had when the view was made.  Bytes are appended with  *)
(* idris_appendB8Native.                                                   *)
(***************************************************************************)
AppCounts == {1, 2}

\* the chunk allocate carves for internal_allocate(vm, hint)
BufChunk(hint) == Pow2Up(hint + BufHeader) + SizeT
\* the chunk of a buffer with capacity cap
ChunkOfCap(cap) == cap + BufHeader + SizeT

\* the objects a view reaches: the roots of a collection
LiveBufs == {w.buf : w \in views}

\* heap.next - heap.heap after idris_gc, with the views as roots
UsedAfterGC(live) ==
    LET RECURSIVE Sum(_)
        Sum(S) == IF S = {} THEN 0
                  ELSE LET id == CHOOSE x \in S : TRUE IN
                       ChunkOfCap(bobjs[id].cap) + Sum(S \ {id})
    IN Sum(live)

\* if (vm->heap.next + chunk_size < vm->heap.end)
BufFits(used, chunk) == used + chunk < BufHeapBytes

\* allocate(size, 0) in internal_allocate collects
BufAllocGC(hint) == ~BufFits(bheap.used, BufChunk(hint))

\* the heap after allocate: [used, gcs]; the collection keeps what the
\* views reach
BufHeapAfter(hint) ==
    IF BufAllocGC(hint)
    THEN [used |-> UsedAfterGC(LiveBufs) + BufChunk(hint),
          gcs |-> bheap.gcs + 1]
    ELSE [bheap EXCEPT !.used = @ + BufChunk(hint)]

\* allocate returns: there is room, at once or after one collection
BufAllocReturns(hint) ==
    BufAllocGC(hint) =>
        /\ bheap.gcs < MaxBufGCs
        /\ BufFits(UsedAfterGC(LiveBufs), BufChunk(hint))

\* the objects after the collection of allocate, if there was one
ObjsAfter(hint) ==
    IF BufAllocGC(hint)
    THEN [id \in 1..MaxBufs |-> IF id \in LiveBufs THEN bobjs[id] ELSE NoObj]
    ELSE bobjs

\* idris_buffer_allocate(vm, hint): the program gets a view of length 0
BufferAllocate(hint) ==
    /\ BufAllocReturns(hint)
    /\ \E id \in 1..MaxBufs :
          /\ ObjsAfter(hint)[id] = NoObj
          /\ \A j \in 1..(id - 1) : ObjsAfter(hint)[j] # NoObj
          /\ bobjs' = [ObjsAfter(hint) EXCEPT ![id] = internal_allocate(hint, 0)]
          /\ views' = views \cup {[buf |-> id, len |-> 0]}
    /\ bheap' = BufHeapAfter(hint)
    /\ UNCHANGED <<heapVars, allocVars, msgVars, peerVars, valVars, strVars,
                   bufVars, life, lastapp, stackVars, threadVars, keyVars>>

\* the program forgets a view
DropView(w) ==
    /\ w \in views
    /\ views' = views \ {w}
    /\ UNCHANGED <<heapVars, allocVars, msgVars, peerVars, valVars, strVars,
                   bufVars, life, bobjs, bheap, lastapp, stackVars,
                   threadVars, keyVars>>

\* memset(cl->info.buf->store + bufLen, val, count)
memset(store, bufLen, val, count) ==
    [i \in 1..Len(store) |->
        IF i > bufLen /\ i <= bufLen + count THEN val ELSE store[i]]

\* what memmove(cl->store, buf->store, bufLen) copies when a collection has
\* run since buf was read from the stack: buf addresses the old semi-space
StaleCopies(b, bufLen) ==
    {[i \in 1..bufLen |-> b.store[i]], [i \in 1..bufLen |-> JUNK]}

\* idris_appendB8Native(vm, buf, len, cnt, val) on a view the program holds
AppendB8Native(w, count, val) ==
    LET b == bobjs[w.buf]
        bufLen == w.len
        totalLen == bufLen + count
        fresh == bufLen # b.fill \/ totalLen > b.cap
    IN
    /\ w \in views
    /\ lastapp.num < MaxAppends
    /\ IF ~fresh
       THEN LET cl == internal_prepare_append(b, bufLen, count) IN
            /\ bobjs' = [bobjs EXCEPT ![w.buf] =
                   [cl EXCEPT !.store = memset(cl.store, bufLen, val, count)]]
            /\ views' = views \cup {[buf |-> w.buf, len |-> totalLen]}
            /\ lastapp' = [buf |-> w.buf, len |-> bufLen, appLen |-> count,
                           before |-> b, orig |-> bobjs'[w.buf],
                           res |-> bobjs'[w.buf],
                           inplace |-> TRUE, gc |-> FALSE,
                           hi |-> totalLen, num |-> lastapp.num + 1]
            /\ UNCHANGED bheap
       ELSE /\ BufAllocReturns(totalLen)
            /\ bheap' = BufHeapAfter(totalLen)
            /\ \E id \in 1..MaxBufs :
                  /\ ObjsAfter(totalLen)[id] = NoObj
                  /\ \A j \in 1..(id - 1) : ObjsAfter(totalLen)[j] # NoObj
                  /\ \E copied \in IF BufAllocGC(totalLen)
                                   THEN StaleCopies(b, bufLen)
                                   ELSE {[i \in 1..bufLen |-> b.store[i]]} :
                        LET cl == internal_prepare_append(b, bufLen, count)
                            st == [i \in 1..cl.cap |->
                                      IF i <= bufLen THEN copied[i]
                                      ELSE cl.store[i]]
                            res == [cl EXCEPT !.store =
                                       memset(st, bufLen, val, count)]
                        IN
                        /\ bobjs' = [ObjsAfter(totalLen) EXCEPT ![id] = res]
                        /\ views' = views \cup {[buf |-> id, len |-> totalLen]}
                        /\ lastapp' = [buf |-> w.buf, len |-> bufLen,
                               appLen |-> count, before |-> b,
                               orig |-> bobjs'[w.buf], res |-> res,
                               inplace |-> FALSE,
                               gc |-> BufAllocGC(totalLen),
                               hi |-> totalLen, num |-> lastapp.num + 1]
    /\ UNCHANGED <<heapVars, allocVars, msgVars, peerVars, valVars, strVars,
                   bufVars, life, stackVars, threadVars, keyVars>>

NextAppend ==
    \/ \E hint \in Hints : BufferAllocate(hint)
    \/ \E w \in views : DropView(w)
    \/ \E w \in views : \E count \in AppCounts : \E val \in ByteSamples :
          AppendB8Native(w, count, val)

SpecAppend == Init /\ [][NextAppend]_vars

(***************************************************************************)
(* idris_appendB{8,16,32,64}{Native,LE,BE} with a count, and the peek of   *)
(* each element.                                                           *)
(***************************************************************************)
AllWidths == {8} \cup Widths
Variants == {"Native"} \cup Orders
Counts == {0, 1, 2}

\* internal_memset(dest, src, size, num): num copies of the size bytes of
\* src, one after the other, from store + len on
internal_memset(store, len, val, num) ==
    [i \in 1..Len(store) |->
        IF i > len /\ i <= len + num * Len(val)
        THEN val[((i - len - 1) % Len(val)) + 1]
        ELSE store[i]]

\* the val and val_len an append passes to internal_append_bits: the
\* Native forms pass &val->info.bitsN and sizeof val->info.bitsN (the
\* bytes of the value as x86 keeps them), the LE and BE forms pass the
\* array and its sizeof
ValBytes(order, v) ==
    IF order = "Native" THEN v
    ELSE IF order = "LE" THEN leVal(v) ELSE beVal(v)

\* idris_appendB{n}{order}(vm, buf, len, cnt, val) on the new buffer
AppendCount(n, order, count, v) ==
    LET val == ValBytes(order, v)
        len == buf.fill
        cl == internal_prepare_append(buf, len, count * Len(val))
    IN
    /\ bpc = "empty"
    /\ n = 8 => order = "Native"
    /\ buf' = [cl EXCEPT !.store = internal_memset(cl.store, len, val, count)]
    /\ bapp' = [n |-> n, order |-> order, v |-> v]
    /\ lastapp' = [NoAppend EXCEPT !.len = len, !.num = count, !.before = buf,
                                   !.res = buf']
    /\ bpc' = "counted"
    /\ UNCHANGED <<heapVars, allocVars, msgVars, peerVars, valVars, strVars,
                   ptr_bytes, bpeek, life, bobjs, views, bheap, stackVars,
                   threadVars, keyVars>>

\* idris_peekB{n}Native: *(uintN_t *) (store + offset)
peekNative(b, offset, n) == [k \in 1..(n \div 8) |-> b.store[offset + k]]

\* idris_peekB{n}{order}(vm, buf, off) of element i of the last append,
\* with off = len + i * n/8
PeekElement(i) ==
    LET n == bapp.n
        offset == lastapp.len + i * (n \div 8)
    IN
    /\ bpc = "counted"
    /\ i < lastapp.num
    /\ offset + (n \div 8) <= buf.cap
    /\ bpeek' = [order |-> bapp.order,
                 val |-> IF bapp.order = "Native" THEN peekNative(buf, offset, n)
                         ELSE IF bapp.order = "LE" THEN peekLE(buf, offset, n)
                         ELSE peekBE(buf, offset, n)]
    /\ bpc' = "peeked"
    /\ UNCHANGED <<heapVars, allocVars, msgVars, peerVars, valVars, strVars,
                   ptr_bytes, buf, bapp, life, appVars, stackVars, threadVars,
                   keyVars>>

NextStride ==
    \/ \E hint \in Hints : idris_buffer_allocate(hint)
    \/ \E n \in AllWidths : \E order \in Variants : \E count \in Counts :
          \E v \in BitsValues(n) : AppendCount(n, order, count, v)
    \/ \E i \in 0..2 : PeekElement(i)

SpecStride == InitBufAny /\ [][NextStride]_vars

(***************************************************************************)
(* The value stack: SLIDE.                                                 *)
(***************************************************************************)
\* LOC(i) and TOP(i): the slot i above valstack_base and valstack_top
LOC(i) == valstack_base + i
TOP(i) == valstack_top + i

\* the order of the loop in reverse: i = args - 1 down to 0
SlideOrder_Down(args) == [k \in 1..args |-> args - k]

\* for(i = 0; i < args; ++i): the values i takes, in order
SlideOrder(args) == [k \in 1..args |-> k - 1]

\* the stack after the assignments LOC(i) = TOP(i) for the i of order
RECURSIVE SlideLoop(_, _)
SlideLoop(st, order) ==
    IF order = << >> THEN st
    ELSE SlideLoop([st EXCEPT ![LOC(Head(order))] = st[TOP(Head(order))]],
                   Tail(order))

\* SLIDE(vm, args)
SLIDE(args) ==
    /\ slid = NoSlide
    /\ TOP(args) <= StackSlots
    /\ valstack' = SlideLoop(valstack, SlideOrder(args))
    /\ slid' = [args |-> args, stack |-> valstack, base |-> valstack_base,
                top |-> valstack_top]
    /\ UNCHANGED <<valstack_base, valstack_top>>
    /\ UNCHANGED <<heapVars, allocVars, msgVars, peerVars, valVars, strVars,
                   bufVars, life, appVars, threadVars, keyVars>>

\* the program writes an argument of the next call above valstack_top
StoreTop(i, v) ==
    /\ slid = NoSlide
    /\ TOP(i) < StackSlots
    /\ valstack[TOP(i)] # v
    /\ valstack' = [valstack EXCEPT ![TOP(i)] = v]
    /\ UNCHANGED <<heapVars, allocVars, msgVars, peerVars, valVars, strVars,
                   bufVars, life, appVars, valstack_base, valstack_top, slid,
                   threadVars, keyVars>>

NextSlide ==
    \/ \E args \in 0..StackSlots : SLIDE(args)
    \/ \E i \in StackIdx : \E v \in 0..MaxStackVal : StoreTop(i, v)

\* every frame of the stack: valstack <= valstack_base <= valstack_top
InitSlide ==
    /\ InitHeap /\ InitRts(1) /\ InitVals /\ InitStr /\ InitLife
    /\ InitBuf({SizeofVAL}) /\ InitThreads
    /\ \E b \in StackIdx : \E t \in b..(StackSlots - 1) :
          InitStack([i \in StackIdx |-> i % (MaxStackVal + 1)], b, t)

SpecSlide == InitSlide /\ [][NextSlide]_vars

(***************************************************************************)
(* Threads: vmThread, runThread and terminate.  The main thread spawns     *)
(* children; callvm->processes++ and callvm->processes-- are a load and a  *)
(* store each, by different threads and under no lock.                     *)
(***************************************************************************)
\* an access by thread t to a field of VM v: recorded when v is freed
Access(t, v, what) ==
    IF tvms[v].state = "freed" THEN uaf \cup {<<what, t, v>>} ELSE uaf

\* vmThread(callvm, f, arg) up to the load of callvm->processes++:
\* init_vm for the child and vm->processes = 1
VmThreadCall(c) ==
    /\ threads[MainVM].pc = "run"
    /\ tvms[c].state = "none"
    /\ \A j \in 1..(c - 1) : tvms[j].state # "none"
    /\ tvms' = [tvms EXCEPT ![c] = [state |-> "live", processes |-> 1]]
    /\ threads' = [threads EXCEPT ![MainVM].pc = "inc",
                                  ![MainVM].load = tvms[MainVM].processes,
                                  ![MainVM].arg = c]
    /\ UNCHANGED <<heapVars, allocVars, msgVars, peerVars, valVars, strVars,
                   bufVars, life, appVars, stackVars, uaf, keyVars>>

\* the store of callvm->processes++, and pthread_create
VmThreadCreate ==
    /\ threads[MainVM].pc = "inc"
    /\ tvms' = [tvms EXCEPT ![MainVM].processes = threads[MainVM].load + 1]
    /\ threads' = [threads EXCEPT ![MainVM].pc = "run",
                                  ![threads[MainVM].arg].pc = "run"]
    /\ UNCHANGED <<heapVars, allocVars, msgVars, peerVars, valVars, strVars,
                   bufVars, life, appVars, stackVars, uaf, keyVars>>

\* the VMs thread t has a pointer to: the main thread those of its
\* children, a child that of its parent
Known(t) ==
    IF t = MainVM THEN {c \in Children : tvms[c].state # "none"}
    ELSE {MainVM}

\* idris_sendMessage(vm, dest, msg) by a running thread: it locks
\* dest->alloc_lock, copies into the heap of dest and appends to its inbox
ThreadSend(t, dest) ==
    /\ threads[t].pc = "run"
    /\ dest \in Known(t)
    /\ threads[t].sent < MaxThreadSends
    /\ threads' = [threads EXCEPT ![t].sent = @ + 1]
    /\ uaf' = Access(t, dest, "send")
    /\ UNCHANGED <<heapVars, allocVars, msgVars, peerVars, valVars, strVars,
                   bufVars, life, appVars, stackVars, tvms, keyVars>>

\* runThread: td->fn(vm, NULL) returns, and the load of callvm->processes--
RunThreadLoad(c) ==
    /\ c \in Children
    /\ threads[c].pc = "run"
    /\ threads' = [threads EXCEPT ![c].pc = "dec",
                                  ![c].load = tvms[MainVM].processes]
    /\ uaf' = Access(c, MainVM, "processes")
    /\ UNCHANGED <<heapVars, allocVars, msgVars, peerVars, valVars, strVars,
                   bufVars, life, appVars, stackVars, tvms, keyVars>>

\* the store of callvm->processes--
RunThreadStore(c) ==
    /\ c \in Children
    /\ threads[c].pc = "dec"
    /\ tvms' = [tvms EXCEPT ![MainVM].processes = threads[c].load - 1]
    /\ threads' = [threads EXCEPT ![c].pc = "term"]
    /\ uaf' = Access(c, MainVM, "processes")
    /\ UNCHANGED <<heapVars, allocVars, msgVars, peerVars, valVars, strVars,
                   bufVars, life, appVars, stackVars, keyVars>>

\* free(td); terminate(vm); return NULL;
RunThreadTerminate(c) ==
    /\ c \in Children
    /\ threads[c].pc = "term"
    /\ tvms' = [tvms EXCEPT ![c].state = "freed"]
    /\ threads' = [threads EXCEPT ![c].pc = "done"]
    /\ UNCHANGED <<heapVars, allocVars, msgVars, peerVars, valVars, strVars,
                   bufVars, life, appVars, stackVars, uaf, keyVars>>

\* close_vm(vm) by the main thread when its program has returned; nothing
\* joins the children
CloseVm ==
    /\ threads[MainVM].pc = "run"
    /\ tvms' = [tvms EXCEPT ![MainVM].state = "freed"]
    /\ threads' = [threads EXCEPT ![MainVM].pc = "done"]
    /\ UNCHANGED <<heapVars, allocVars, msgVars, peerVars, valVars, strVars,
                   bufVars, life, appVars, stackVars, uaf, keyVars>>

NextThreads ==
    \/ \E c \in Children : VmThreadCall(c)
    \/ VmThreadCreate
    \/ \E t \in {MainVM} \cup Children : \E d \in Known(t) : ThreadSend(t, d)
    \/ \E c \in Children : RunThreadLoad(c)
    \/ \E c \in Children : RunThreadStore(c)
    \/ \E c \in Children : RunThreadTerminate(c)
    \/ CloseVm

SpecThreads == Init /\ [][NextThreads]_vars

(***************************************************************************)
(* The resources of a VM: init_vm creates them, terminate releases them.   *)
(***************************************************************************)
\* init_vm, in the order of its statements: malloc(sizeof(VM)), the value
\* stack, alloc_heap, the inbox, and the pthread_*_init calls
InitOrder == <<"vm", "valstack", "heap", "inbox", "inbox_lock",
               "inbox_block", "alloc_lock", "inbox_waiting">>

\* terminate, in the order of its statements: free, free, free_heap, two
\* pthread_mutex_destroy, pthread_cond_destroy, free(vm)
TermOrder == <<"inbox", "valstack", "heap", "inbox_lock", "inbox_block",
               "inbox_waiting", "vm">>

\* init_vm: the next statement that creates something
InitVmStep(v) ==
    /\ life[v].pc \in {"none", "init"}
    /\ LET k == life[v].at + 1 IN
       life' = [life EXCEPT ![v] =
                   [pc |-> IF k = Len(InitOrder) THEN "live" ELSE "init",
                    at |-> IF k = Len(InitOrder) THEN 0 ELSE k,
                    made |-> life[v].made \cup {InitOrder[k]},
                    freed |-> << >>]]
    /\ UNCHANGED <<heapVars, allocVars, msgVars, peerVars, valVars, strVars,
                   bufVars, appVars, stackVars, threadVars, keyVars>>

\* close_vm(vm), or runThread when the thread's function has returned
TerminateCall(v) ==
    /\ life[v].pc = "live"
    /\ life' = [life EXCEPT ![v].pc = "term"]
    /\ UNCHANGED <<heapVars, allocVars, msgVars, peerVars, valVars, strVars,
                   bufVars, appVars, stackVars, threadVars, keyVars>>

\* terminate: the next statement that releases something
TerminateStep(v) ==
    /\ life[v].pc = "term"
    /\ LET k == life[v].at + 1 IN
       life' = [life EXCEPT ![v] =
                   [pc |-> IF k = Len(TermOrder) THEN "gone" ELSE "term",
                    at |-> k,
                    made |-> life[v].made,
                    freed |-> Append(life[v].freed, TermOrder[k])]]
    /\ UNCHANGED <<heapVars, allocVars, msgVars, peerVars, valVars, strVars,
                   bufVars, appVars, stackVars, threadVars, keyVars>>

NextLife ==
    \E v \in 1..MaxVMs : InitVmStep(v) \/ TerminateCall(v) \/ TerminateStep(v)

SpecLife == Init /\ [][NextLife]_vars

(***************************************************************************)
(* Claims about allocate (specification SpecAlloc).                        *)
(***************************************************************************)
\* the spec's round8 and chunk size, computed independently of the code
SpecRound8(s) == ((s + 7) \div 8) * 8
SpecChunks == [i \in 1..Len(reqs) |-> SpecRound8(reqs[i]) + SizeT]
SpecTotal == SumSeq(SpecChunks)

\* the chunks handed out so far lie as the spec describes them
ChunkLayout ==
    /\ 0 <= heap_next /\ heap_next <= HeapSize
    /\ Len(allocs) <= Len(reqs)
    /\ apc = "idle" => Len(allocs) = Len(reqs)
    /\ \A i \in 1..Len(allocs) :
         LET a == allocs[i] IN
         /\ a.ptr % 8 = 0
         /\ a.chunk = SpecChunks[i]
         /\ a.size >= reqs[i]
         /\ mem[(a.ptr - SizeT) \div SizeT] = a.chunk
         /\ \A w \in WordsOfHeap :
              (w * SizeT >= a.ptr /\ w * SizeT < a.ptr + a.size) => mem[w] = 0
         /\ a.ptr - SizeT = SumSeq(SubSeq(SpecChunks, 1, i - 1))
         /\ \A j \in 1..Len(allocs) :
              i < j => a.ptr + a.size <= allocs[j].ptr - SizeT
    /\ heap_next = SumSeq(SubSeq(SpecChunks, 1, Len(allocs)))

C9_CollectsAtMostOncePerRequest == areq.gcs <= 1

(***************************************************************************)
(* Claims about messaging (specification Spec).                            *)
(***************************************************************************)
RecvPcs == {"r_block", "r_wait", "r_scan", "r_unblock", "r_ilock",
            "r_remove", "r_iunlock"}

\* no send and no receive is mid-flight
Quiescent == NoSendInFlight /\ dpc \notin RecvPcs

\* the entries below the write pointer, first to last
Pending ==
    [i \in 1..inbox_write |->
        [sender |-> inbox[i - 1].sender, msg |-> CopyOf(inbox[i - 1].msg)]]

\* some receive has returned the copy of entry m
Received(m) == \E j \in 1..Len(recvLog) : recvLog[j].msg = m.msg

\* the completed sends that no receive has returned, in append order
Outstanding == SelectSeq(sentLog, LAMBDA m : ~Received(m))

\* C1: per-sender FIFO. When D has received the k-th message of a sender
\* (k > 1), it has received that sender's (k-1)-th message before it.
C1_PerSenderFIFO ==
    \A i \in 1..Len(recvLog) :
        recvLog[i].msg.seq > 1 =>
            \E j \in 1..(i - 1) :
                recvLog[j].msg = [from |-> recvLog[i].msg.from,
                                  seq |-> recvLog[i].msg.seq - 1]

\* C2: no lost or duplicated messages. In every state with no send or
\* receive mid-flight, the entries below the write pointer are exactly the
\* completed sends minus those a receive has returned, in send order.
C2_NoLostOrDuplicated == Quiescent => Pending = Outstanding

\* C3: the value a receive returns is the copy of the message that was sent,
\* a live object of D's heap. Stated for the receives that return a whole
\* entry, the sender together with a copy made for it.
C3_ReceivedCopyIsValid ==
    (dpc = "r_iunlock" /\ dret.sender # NULLVM /\ dret.msg.from = dret.sender)
        => dret.msg.valid

C5_ReturnsPendingMatch ==
    dpc = "r_iunlock" =>
        /\ Matches(darg, dret.sender)
        /\ \E k \in 1..Len(sentLog) :
              sentLog[k] = [sender |-> dret.sender, msg |-> CopyOf(dret.msg)]

\* C6: check_messages_from returns the sender of the first pending entry
\* that matches, and the sentinel exactly when none does. Stated for the
\* calls no send runs concurrently with.
C6_CheckAgreesWithPending == (chk.done /\ chk.quiet) => chk.res = chk.exp

\* C7: mailbox overflow is fail-fast. No send writes outside the mailbox
\* buffer, and only a send that finds the mailbox full exits.
C7_NoWritePastMailbox ==
    /\ "send_past_allocation" \notin faults
    /\ \A s \in Senders : spc[s] = "exit" => InboxFull(inbox_write)

\* C10: reservation scope. Between the return of requireAlloc and doneAlloc
\* no collection of the heap runs and the bump pointer has moved by the
\* scope's own allocations only.
C10_ScopeIsUndisturbed ==
    dscope.open =>
        /\ collections = dscope.gcs
        /\ heap_next = dscope.next + dscope.used

(***************************************************************************)
(* Claims about the allocation lock (specification SpecScope).             *)
(***************************************************************************)
\* C11: allocation-lock balance. doneAlloc releases the allocation lock
\* exactly when the matching requireAlloc acquired it, so outside a scope
\* the owner holds the lock zero times, whatever the process count did
\* in between.
C11_LockBalanced ==
    (dpc = "idle" /\ ~dscope.open) => alloc_lock.owner # Owner

(***************************************************************************)
(* Claims about the locks of a send (specification SpecPeers).             *)
(***************************************************************************)
SendPcs == {"lock", "copy", "recheck", "ilock", "block", "iunlock"}

\* the VMs whose allocation lock thread t holds
AllocLocksHeld(t) == {v \in Peers : plock[v].owner = t}

\* C12: lock ordering of send. A thread executing send_message holds at
\* most one VM's allocation lock, the destination's only, and never the
\* destination's allocation lock together with its inbox lock.
C12_SendLockOrder ==
    \A t \in Peers :
        ppc[t] \in SendPcs =>
            /\ Cardinality(AllocLocksHeld(t)) <= 1
            /\ ppc[t] = "copy" => AllocLocksHeld(t) = {pdest[t]}
            /\ ~(plock[pdest[t]].owner = t /\ pilock[pdest[t]] = t)

\* the thread that holds the lock thread t is blocked on, 0 when t is not
\* blocked
BlockedOn(t) ==
    IF ppc[t] = "lock" /\ plock[pdest[t]].owner \notin {0, t}
        THEN plock[pdest[t]].owner
    ELSE IF ppc[t] = "ilock" THEN pilock[pdest[t]]
    ELSE IF ppc[t] = "block" THEN pblock[pdest[t]]
    ELSE IF ppc[t] = "r_ilock" THEN pilock[t]
    ELSE 0

\* C13: deadlock freedom. No reachable state has a cycle of threads each
\* waiting for a lock held by the next.
C13_NoLockCycle ==
    ~ \E t, u \in Peers : t # u /\ BlockedOn(t) = u /\ BlockedOn(u) = t

(***************************************************************************)
(* Claims about the nullary table (SpecBoot)                               *)
(***************************************************************************)
\* a constructor without arguments whose tag has a slot in the table
SmallNullary(n) == n.ty = "CON" /\ Len(n.args) = 0 /\ n.tag < NullaryLimit

\* the copy of n is n itself, and n is the slot of its tag in nullary_cons
SharedSlot(n, copy) ==
    SmallNullary(n) => copy = n /\ copy = nullary_cons(nullaries, n.tag)

\* C14: a deep copy of a nullary constructor with tag t < 256, alone or as
\* an argument, is the pointer of the source and is the table slot of t, so
\* every VM sees one object for t
C14_NullaryIsShared ==
    (lastcopy.src # 0 /\ lastcopy.ret # Trap) =>
        /\ SharedSlot(lastcopy.x, lastcopy.ret)
        /\ \A i \in 1..Len(lastcopy.x.args) :
               SharedSlot(lastcopy.x.args[i], lastcopy.ret.args[i])

\* the slots VM v can reach from the value it holds
SlotsHeld(v) ==
    {n \in {held[v]} \cup {held[v].args[i] : i \in 1..Len(held[v].args)} :
        n.at.kind = "table"}

\* C15: nullary_cons is set once, by the first VM created, and never again
\* whatever the order of idris_vm, init_vm and vmThread: with a VM alive
\* there is a table, it is the first one, and every slot in use is its slot
C15_TableInitialisedOnce ==
    /\ nvms > 0 => nullaries = 1
    /\ \A v \in 1..MaxVMs : \A n \in SlotsHeld(v) : n.at.id = nullaries

(***************************************************************************)
(* Claims about strings (SpecStr)                                          *)
(***************************************************************************)
\* the value the program holds once idris_strTail has returned
StrHeld == tpc = "idle" /\ sval.ty = "STROFFSET"

\* C16: a STROFFSET made by idris_strTail has a STRING as its root, never a
\* STROFFSET or anything else, its offset is the number of idris_strTail
\* steps taken from that root, and it stands for the root's bytes without
\* that many leading bytes
C16_OffsetChainIsFlat ==
    StrHeld =>
        /\ sval.root[1].ty = "STRING"
        /\ sval.off = steps
        /\ GETSTR(sval) = Drop(sval.root[1].bytes, steps)
        /\ GETSTR(sval) = expect

(***************************************************************************)
(* Claims about buffers (SpecBuf)                                          *)
(***************************************************************************)
\* the bytes of v in the opposite order
byteswap(v) == [k \in 1..Len(v) |-> v[Len(v) + 1 - k]]

\* C17: after appendB{N}LE or BE of v to the empty buffer, byte 0 is the low
\* byte of v (LE) or its high byte (BE); the peek of the same order at 0
\* gives v and the peek of the other order gives byteswap(v)
C17_EndianRoundTrip ==
    /\ bpc \in {"appended", "peeked"} =>
          buf.store[1] = IF bapp.order = "LE" THEN bapp.v[1]
                         ELSE bapp.v[Len(bapp.v)]
    /\ bpc = "peeked" =>
          bpeek.val = IF bpeek.order = bapp.order THEN bapp.v
                      ELSE byteswap(bapp.v)

(***************************************************************************)
(* Claims about the resources of a VM (SpecLife)                           *)
(***************************************************************************)
\* how many times terminate has released r
Releases(v, r) ==
    Cardinality({i \in 1..Len(life[v].freed) : life[v].freed[i] = r})

\* C18: when terminate(vm) has returned, everything init_vm created for the
\* VM (heap, value stack, mailbox, inbox lock, condition variable and its
\* lock, allocation lock) has been released, and nothing was released twice
C18_TerminateReleasesAll ==
    \A v \in 1..MaxVMs :
        /\ life[v].pc = "gone" => \A r \in life[v].made : Releases(v, r) = 1
        /\ \A r \in life[v].made : Releases(v, r) <= 1

(***************************************************************************)
(* Claims about who collects D's heap, and when (Spec)                     *)
(***************************************************************************)
\* the senders inside copyTo(dest, msg), between lines 1096 and 1102
CopyingInto == {s \in Senders : spc[s] \in {"copy1", "copy2"}}

\* a step in which idris_gc runs on D's heap
CollectionStep == collections' > collections
\* a step of D's owner that leaves allocate's test (to retry) or the test of
\* idris_requireAlloc (to take the lock): the owner's thread has moved
OwnerMoves == dpc' # dpc

\* C19: while idris_gc runs on D's heap, whether allocate or
\* idris_requireAlloc of D's owner called it, no peer is inside a deep copy
\* into that heap
C19_NoCopyDuringCollection ==
    [][(CollectionStep /\ OwnerMoves) => CopyingInto = {}]_vars

\* C20: idris_gc runs on D's heap only in a step of D's owner, never in the
\* step of a sender whose copy found no room
C20_OwnerCollects ==
    [][CollectionStep => (OwnerMoves \/ dpc = "q_in")]_vars

(***************************************************************************)
(* Claims about writes to D's heap (SpecHeap)                              *)
(***************************************************************************)
\* the owner is past the lock decision of allocate, at the test and the bump
OwnerInAllocate == dpc = "a_try"

\* C21: at most one thread is inside the allocation step of D's heap; a
\* sender allocates there only with D's alloc_lock held; and the owner is on
\* the path without the lock only while no peer is sending into D
C21_HeapWriteExclusive ==
    /\ ~(OwnerInAllocate /\ CopyingInto # {})
    /\ \A s \in CopyingInto : alloc_lock.owner = s
    /\ (OwnerInAllocate /\ ~dlock) => \A s \in Senders : spc[s] = "idle"


(***************************************************************************)
(* C22: copyTo rebinds the current VM of the calling thread.               *)
(***************************************************************************)
InsideCopyTo(t) == kth[t].pc = "copy"

\* C22: while a thread is inside copyTo(D, x) its current-VM binding is D
\* and every allocation it made, a retry after a collection included, was
\* on the heap of D; outside copyTo the binding is the one the thread had
\* before the call; a send touches the heap and the mailbox of the
\* destination only, never those of the sender.
C22_CopyToRebinds ==
    \A t \in Peers :
        /\ InsideCopyTo(t) => vm_key[t] = kth[t].dest
        /\ ~InsideCopyTo(t) => vm_key[t] = kth[t].before
        /\ kth[t].touched \subseteq
               {<<"heap", kth[t].dest>>, <<"inbox", kth[t].dest>>}
        /\ kth[t].pc # "run" => kth[t].dest # t

C22_Witness ==
    \E t \in Peers :
        /\ kth[t].pc = "run"
        /\ kth[t].sent > 0
        /\ kth[t].retried
        /\ kth[t].touched = {<<"heap", kth[t].dest>>, <<"inbox", kth[t].dest>>}
        /\ kvm[t].next > 0

(***************************************************************************)
(* C23: doCopyTo has a case for every type of object.                      *)
(***************************************************************************)
\* C23: every copyTo of a value a program holds returns a value: an
\* immediate, a slot of the nullary table, or a fresh object of the heap of
\* the destination; no copy ends in the assert(0) of the default case.
C23_DeepCopyTotal ==
    /\ ~aborted
    /\ lastcopy.src # 0 =>
           /\ lastcopy.ret # Trap
           /\ \/ lastcopy.ret.at = Heap(lastcopy.dst)
              \/ lastcopy.ret.ty \in {"NULL", "INT"}
              \/ IsGloballyAllocated(lastcopy.ret)

(***************************************************************************)
(* C24: appends leave the buffers of old views as they were.               *)
(***************************************************************************)
\* C24: an append on a view of length bufLen bumps fill in place exactly
\* when bufLen is the fill of the buffer and bufLen + appLen <= cap;
\* otherwise the result is a fresh buffer with fill = bufLen + appLen whose
\* first bufLen bytes are those of the original, and the original keeps its
\* fill and bytes; every buffer has fill <= cap and the append wrote below
\* cap.
C24_AppendKeepsOldViews ==
    /\ \A id \in 1..MaxBufs : bobjs[id] # NoObj => bobjs[id].fill <= bobjs[id].cap
    /\ lastapp # NoAppend =>
          LET a == lastapp IN
          /\ a.inplace <=> (a.len = a.before.fill
                            /\ a.len + a.appLen <= a.before.cap)
          /\ a.hi <= a.res.cap
          /\ ~a.inplace =>
                /\ a.res.fill = a.len + a.appLen
                /\ \A i \in 1..a.len : a.res.store[i] = a.before.store[i]
                /\ a.orig \in {a.before, NoObj}

(***************************************************************************)
(* C25: the stride of the appends.                                         *)
(***************************************************************************)
\* an append with a count has returned
Counted == bpc \in {"counted", "peeked"}

\* C25: an append of count values of width N, in any variant, makes the
\* buffer count * N/8 bytes longer, and the peek of the same variant at
\* len + i * N/8 returns the value for every i < count.
C25_AppendStride ==
    Counted =>
        /\ buf.fill = lastapp.len + lastapp.num * (bapp.n \div 8)
        /\ bpc = "peeked" => bpeek.val = bapp.v

(***************************************************************************)
(* C26: SLIDE.                                                             *)
(***************************************************************************)
\* the slots SLIDE(args) assigns
SlideDest == {slid.base + i : i \in 0..(slid.args - 1)}

\* C26: after SLIDE(n) slot base[i] holds what top[i] held before the call
\* for every i < n, also when top[0..n) overlaps base[0..n); the other
\* slots, valstack_base and valstack_top are as they were.
C26_SlideMovesTop ==
    slid # NoSlide =>
        /\ \A i \in 0..(slid.args - 1) :
               valstack[slid.base + i] = slid.stack[slid.top + i]
        /\ \A j \in StackIdx \ SlideDest : valstack[j] = slid.stack[j]
        /\ valstack_base = slid.base
        /\ valstack_top = slid.top

\* a SLIDE whose ranges overlap and that moved a value over another
C26_Witness ==
    /\ slid # NoSlide
    /\ slid.top > slid.base
    /\ slid.top < slid.base + slid.args
    /\ \E i \in 0..(slid.args - 1) :
          /\ slid.top + i \in SlideDest
          /\ slid.stack[slid.top + i] # valstack[slid.top + i]

(***************************************************************************)
(* C27: the mailbox is read and written under inbox_lock.                  *)
(***************************************************************************)
\* the receiver is at a read of the slots or of inbox_write: the scan of
\* idris_getMessageFrom, or ret->msg = msg->msg; ret->sender = msg->sender
ReceiverReads == dpc \in {"r_scan", "r_unblock"}

\* the entry a receive took is whole: both fields of one append
WholeEntry(e) ==
    e.sender # NULLVM /\ e.msg # NullVal /\ e.msg.from = e.sender

\* C27: the thread of a receive holds inbox_lock at every read of the
\* slots and of inbox_write and during the removal, a sender holds it at
\* every store of its append, and the entry a receive has read is never a
\* partly written one.
C27_MailboxUnderLock ==
    /\ ReceiverReads => inbox_lock = Owner
    /\ dpc = "r_remove" => inbox_lock = Owner
    /\ \A s \in Senders : spc[s] = "store" => inbox_lock = s
    /\ dpc = "r_ilock" => WholeEntry(dret)

(***************************************************************************)
(* C28: the slots of the mailbox.                                          *)
(***************************************************************************)
\* C28: with no send and no receive mid-flight inbox_write lies between
\* inbox and inbox_end, the slots below it hold entries and the slots from
\* it on are empty; a removal touches no slot outside [inbox, inbox_end),
\* even on a full mailbox.
C28_SlotInvariant ==
    /\ Quiescent =>
          /\ inbox_write \in 0..InboxSlots
          /\ \A i \in SlotsOfInbox :
                IF i < inbox_write
                THEN inbox[i].msg # NullVal /\ inbox[i].sender # NULLVM
                ELSE inbox[i] = NullMsg
    /\ "remove_writes_inbox_end" \notin faults

(***************************************************************************)
(* C29: the process count.                                                 *)
(***************************************************************************)
\* the children of the main VM whose function has not returned
Unfinished == {c \in Children : threads[c].pc = "run"}

\* no callvm->processes++ or callvm->processes-- is between its load and
\* its store
NoCountMidFlight ==
    /\ threads[MainVM].pc # "inc"
    /\ \A c \in Children : threads[c].pc # "dec"

\* C29: with no increment or decrement mid-flight the process count of a
\* VM is the number of its children that have not finished; it is never
\* negative, and it is 0 again when all of them have.
C29_ProcessCountAccurate ==
    /\ (NoCountMidFlight /\ tvms[MainVM].state = "live") =>
           tvms[MainVM].processes = Cardinality(Unfinished)
    /\ tvms[MainVM].processes >= 0

(***************************************************************************)
(* C30: no access to a VM after terminate.                                 *)
(***************************************************************************)
\* C30: no thread reads or writes the heap, the mailbox, a lock or the
\* process count of a VM that terminate has freed: neither a send to a VM
\* whose thread has returned nor the decrement by a child whose parent is
\* gone.
C30_NoUseAfterTerminate == uaf = {}

====
